---- MODULE Spec2Model ----
(***************************************************************************)
(* Model of the BTC08 SPI chain driver (driver-SPI-btc08.c).               *)
(*                                                                         *)
(* The model covers the run-time job pipeline of one chain: the host       *)
(* facing operations btc08_scanwork, btc08_queue_full and btc08_flush_work *)
(* run by three host threads, the chain mutex, set_work and the batched    *)
(* job write, the GN/OON poll loop and the chain re-initialisation run by  *)
(* flush_work.  The chips, the GPIO lines, the SPI ioctl and the host      *)
(* (get_queued, submit_nonce) are the environment: their answers are drawn *)
(* from small sets.                                                        *)
(*                                                                         *)
(* The driver is modelled as built without NDEBUG (the repository never    *)
(* defines it): `assert(ret = spi_transfer(...))` performs the transfer    *)
(* and terminates the process when it reports failure.                     *)
(***************************************************************************)
EXTENDS Integers, Sequences, FiniteSets, TLC

(* ---------------- program constants ---------------- *)
MAX_JOB_FIFO == 4
ASIC_BOOST_CORE_NUM == 4
FEATURE_FOR_FPGA == 0
FEATURE_FOR_ASIC == 5
FPGA_MINER_CORE_CLK == 50
DEFAULT_PLL == 550
\* variant: a job-id space shorter than the job FIFO
JOB_ID_NUM_MASK_SHORT == MAX_JOB_FIFO - 2
JOB_ID_NUM_MASK == MAX_JOB_FIFO * 2 - 1
OON_REFILL == 2
OON_INT_MAXJOB == 2
PLL_STEP_DOWN == 50
BCAST_CHIP_ID == 0
TIME_LIMIT_OF_OON == 4000
TIME_LIMIT_OF_OON_FPGA == 120000

(* ---------------- bounds of the model ---------------- *)
\* chips a chain may carry (MAX_CHIP_NUM of the source, scaled down)
MaxChipNum == 2
\* cores of one chip (MAX_CORES_PER_CHIP of the source, scaled down)
MaxCoresPerChip == 2
\* works the host hands out in one behaviour
MaxWorks == 9
\* HW-error penalties counted in one scanwork call
MaxPenalty == 1
\* works the host hands out in the specification of the pending queue
QueueWorks == 42
\* length of the work list in the specification of the list operations
MaxListLen == 3
\* width in bits of a nonce (32 in the source, scaled down)
NonceBits == 8
\* chips of the chains the specification of the nonce partition draws
MaxNonceChips == 3
\* hardware errors of one scanwork tick in the specification of the poll loop
MaxTickPenalty == 3
\* ms that pass in one round of the poll loop, and the longest wait followed
YieldMs == 1000
MaxElapsedMs == 125000
\* largest frequency requested from get_pll_idx
MaxPllFreq == 1100
MaxSpiLen == 40

MAX_CORES == MaxChipNum * MaxCoresPerChip
\* MAX_NONCE_SIZE is the largest nonce, 0xffffffff in the source
MAX_NONCE_SIZE == 2 ^ NonceBits - 1
\* DEFAULT_MIN_CORES is 0.9 * MAX_CORES_PER_CHIP, truncated by the assignment
\* to the int field of btc08_config_options
min_cores == (MaxCoresPerChip * 9) \div 10
\* min_chips as set with the min-chips option: the whole chain is required
min_chips == MaxChipNum

NULL == 0
Works == 1..MaxWorks
Slots == 0..JOB_ID_NUM_MASK
Threads == {"scan", "queue", "flush"}
BIST_BUSY == 0 - 1
\* READ_BIST answers: still busy, or the number of cores that passed
BistAnswers == {BIST_BUSY, 0, MaxCoresPerChip}
DEV_ENABLED == "DEV_ENABLED"
DEV_DISABLED == "DEV_DISABLED"

\* share difficulty and vmask of a work (attributes fixed by the host)
WorkSdiff(w) == IF w % 3 = 0 THEN 2 ELSE 1
WorkVmask(w) == w % 2 = 1

VARIABLES
    btc08,      \* struct btc08_chain
    deven,      \* cgpu->deven
    lock,       \* owner of btc08->lock, or "none"
    pc,         \* position of each host thread
    sw,         \* locals of the running btc08_scanwork call
    fl,         \* locals of the running btc08_flush_work call
    nextWork,   \* next work the host will hand out with get_queued
    released,   \* per work: number of work_completed calls
    aborted,    \* the process was terminated (failed assert or fault)
    hist,       \* history of the job scheduling since the last flush
    last        \* the step taken last: thread, chain fields it touched,
                \* owner of the mutex at that moment, value returned

vars == <<btc08, deven, lock, pc, sw, fl, nextWork, released, aborted, hist, last>>

(* ---------------- work queue ---------------- *)
\* the list and num_elems are one sequence: Len is num_elems
wq_enqueue(wq, work) ==
    IF work = NULL THEN [wq |-> wq, ret |-> FALSE]
    ELSE [wq |-> Append(wq, work), ret |-> TRUE]

wq_dequeue(wq) ==
    IF Len(wq) = 0 THEN [wq |-> wq, work |-> NULL]
    ELSE [wq |-> Tail(wq), work |-> Head(wq)]

(* ---------------- chips ---------------- *)
\* one calloc'ed struct btc08_chip
ZeroChip ==
    [num_cores |-> 0, mhz |-> 0, perf |-> 0, rev |-> FEATURE_FOR_FPGA,
     start_nonce |-> 0, end_nonce |-> 0]

\* check_chip after the READ_BIST polls: bist is the final answer
check_chip(chip, bist) ==
    IF bist = BIST_BUSY
    THEN [chip |-> chip, ok |-> FALSE]
    ELSE IF chip.rev # FEATURE_FOR_FPGA /\ bist < min_cores
         THEN [chip |-> [chip EXCEPT !.num_cores = 0, !.perf = 0], ok |-> FALSE]
         ELSE [chip |-> [chip EXCEPT !.num_cores = bist, !.perf = bist * chip.mhz],
               ok |-> TRUE]

\* the BIST loop of reinit_btc08_chip / init_btc08_chain over chips 1..n
RECURSIVE BistLoop(_, _, _)
BistLoop(b, bists, chip_id) ==
    IF chip_id > b.num_chips THEN b
    ELSE LET r == check_chip(b.chips[chip_id], bists[chip_id])
             b1 == [b EXCEPT !.chips[chip_id] = r.chip]
             b2 == IF r.ok
                   THEN [b1 EXCEPT !.num_cores = @ + r.chip.num_cores,
                                   !.perf = @ + r.chip.perf]
                   ELSE b1
         IN BistLoop(b2, bists, chip_id + 1)

\* the freq column of pll_sets
pll_sets ==
    <<24, 50, 100, 150, 200, 250, 300, 350, 400, 450, 500, 550, 600, 650, 700,
      750, 800, 850, 900, 950, 1000>>

NUM_PLL_SET == Len(pll_sets)

\* get_pll_idx: 0-based index of the first entry not below pll_freq
get_pll_idx(pll_freq) ==
    IF pll_freq < pll_sets[1] THEN 0 - 1
    ELSE IF pll_freq > pll_sets[NUM_PLL_SET] THEN NUM_PLL_SET - 1
    ELSE (CHOOSE i \in 1..NUM_PLL_SET :
             /\ pll_freq <= pll_sets[i]
             /\ \A j \in 1..(i - 1) : pll_freq > pll_sets[j]) - 1

\* set_pll_config for one chip: lock says whether the chip locks its PLL
set_pll_config_chip(b, chip_id, pll, lock_ok) ==
    IF b.chips[b.num_chips].rev = FEATURE_FOR_FPGA
    THEN [b |-> [b EXCEPT !.chips[chip_id].mhz = FPGA_MINER_CORE_CLK], ok |-> TRUE]
    ELSE IF get_pll_idx(pll) < 0 THEN [b |-> b, ok |-> FALSE]
    ELSE IF ~lock_ok
    THEN [b |-> [b EXCEPT !.disabled = FALSE, !.chips[chip_id].mhz = 0],
          ok |-> FALSE]
    ELSE [b |-> [b EXCEPT !.disabled = FALSE,
                          !.chips[chip_id].mhz = pll_sets[get_pll_idx(pll) + 1]],
          ok |-> TRUE]

\* set_pll_config(BCAST): locks[i] says whether chip i locks its PLL
set_pll_config(b, locks) ==
    IF b.chips[b.num_chips].rev = FEATURE_FOR_FPGA
    THEN [b |-> [b EXCEPT !.chips = [i \in 1..Len(b.chips) |->
                        [b.chips[i] EXCEPT !.mhz = FPGA_MINER_CORE_CLK]]],
          ok |-> TRUE]
    ELSE [b |-> [b EXCEPT !.disabled = FALSE,
                          !.chips = [i \in 1..Len(b.chips) |->
                        [b.chips[i] EXCEPT !.mhz =
                            IF locks[i] THEN pll_sets[get_pll_idx(DEFAULT_PLL) + 1]
                            ELSE 0]]],
          ok |-> \A i \in 1..b.num_chips : locks[i]]

\* variant: the opcode echo of AUTO_ADDRESS is not checked
chain_detect_no_echo(b, echo, n, ids) ==
    LET b0 == [b EXCEPT !.disabled = FALSE]
    IN IF ids # n
       THEN [b0 EXCEPT !.num_chips = 0, !.num_active_chips = 0]
       ELSE [b0 EXCEPT !.num_chips = n, !.num_active_chips = n]

\* chain_detect: echo = AUTO_ADDRESS echoed its opcode, n = chips it
\* counted, ids = number of READ_ID answers (from chip n downwards) that
\* carried the addressed id
chain_detect(b, echo, n, ids) ==
    LET b0 == [b EXCEPT !.disabled = FALSE]
    IN IF ~echo THEN [b0 EXCEPT !.num_chips = 0]
       ELSE IF ids # n
            THEN [b0 EXCEPT !.num_chips = 0, !.num_active_chips = 0]
            ELSE [b0 EXCEPT !.num_chips = n, !.num_active_chips = n]

\* calc_nonce_range divides by btc08->perf in its partition loop
NonceDivByZero(b) == b.num_chips >= 2 /\ b.perf = 0

(* ---------------- job scheduling ---------------- *)
\* the commands of the batched job write; the chip id of WRITE_PARM is the
\* one set_work hands to create_job
WriteParm == [cmd |-> "WRITE_PARM", chip_id |-> BCAST_CHIP_ID]
WriteTarget(work) ==
    [cmd |-> "WRITE_TARGET", chip_id |-> BCAST_CHIP_ID, sdiff |-> WorkSdiff(work)]
RunJob(job_id, work) ==
    [cmd |-> "RUN_JOB", chip_id |-> BCAST_CHIP_ID, boost |-> WorkVmask(work),
     job_id |-> job_id]

\* variant: the target is never written
cmd_WRITE_JOB_fast_no_target(b, job_id, work, ok) ==
    LET batch == <<WriteParm, RunJob(job_id, work)>>
    IN IF ok
       THEN [b |-> [b EXCEPT !.disabled = FALSE], ret |-> TRUE,
             aborted |-> FALSE, batch |-> batch, job_id |-> job_id,
             boost |-> WorkVmask(work)]
       ELSE [b |-> b, ret |-> TRUE, aborted |-> TRUE, batch |-> batch,
             job_id |-> job_id, boost |-> WorkVmask(work)]

\* cmd_WRITE_JOB_fast: ok is the result of the batched transfer
cmd_WRITE_JOB_fast(b, job_id, work, ok) ==
    LET target == b.sdiff # WorkSdiff(work)
        b1 == IF target THEN [b EXCEPT !.sdiff = WorkSdiff(work)] ELSE b
        batch == <<WriteParm>> \o (IF target THEN <<WriteTarget(work)>> ELSE <<>>)
                 \o <<RunJob(job_id, work)>>
    IN IF ok
       THEN [b |-> [b1 EXCEPT !.disabled = FALSE], ret |-> TRUE,
             aborted |-> FALSE, batch |-> batch, job_id |-> job_id,
             boost |-> WorkVmask(work)]
       ELSE [b |-> b1, ret |-> TRUE, aborted |-> TRUE, batch |-> batch,
             job_id |-> job_id, boost |-> WorkVmask(work)]

\* variant: the counter wraps one step early
NextQueuedIdEarlyWrap(id) == IF id + 1 >= JOB_ID_NUM_MASK THEN 0 ELSE id + 1

\* the counter step at the end of set_work
NextQueuedId(id) == IF id + 1 > JOB_ID_NUM_MASK THEN 0 ELSE id + 1

\* variant: the slot is overwritten, its occupant is not handed to
\* work_completed
set_work_overwrite(b, work, ok) ==
    LET lq == b.last_queued_id
        r == cmd_WRITE_JOB_fast(b, lq + 1, work, ok)
    IN IF r.aborted
       THEN [b |-> r.b, completed |-> <<>>, aborted |-> TRUE,
             installed |-> FALSE, job_id |-> lq + 1, retval |-> FALSE,
             batch |-> r.batch]
       ELSE [b |-> [r.b EXCEPT !.work[lq] = work,
                               !.last_queued_id = NextQueuedId(lq)],
             completed |-> <<>>, aborted |-> FALSE,
             installed |-> TRUE, job_id |-> lq + 1, retval |-> FALSE,
             batch |-> r.batch]

\* set_work: completed lists the works handed to work_completed, in order
set_work(b, work, ok) ==
    LET lq == b.last_queued_id
        job_id == lq + 1
        old == b.work[lq]
        b1 == IF old # NULL THEN [b EXCEPT !.work[lq] = NULL] ELSE b
        done1 == IF old # NULL THEN <<old>> ELSE <<>>
        r == cmd_WRITE_JOB_fast(b1, job_id, work, ok)
    IN IF r.aborted
       THEN [b |-> r.b, completed |-> done1, aborted |-> TRUE,
             installed |-> FALSE, job_id |-> job_id, retval |-> old # NULL,
                  batch |-> r.batch]
       ELSE IF ~r.ret
            THEN [b |-> [r.b EXCEPT !.disabled = TRUE],
                  completed |-> Append(done1, work), aborted |-> FALSE,
                  installed |-> FALSE, job_id |-> job_id, retval |-> old # NULL,
                  batch |-> r.batch]
            ELSE [b |-> [r.b EXCEPT !.work[lq] = work,
                                    !.last_queued_id = NextQueuedId(lq)],
                  completed |-> done1, aborted |-> FALSE,
                  installed |-> TRUE, job_id |-> job_id, retval |-> old # NULL,
                  batch |-> r.batch]

\* work_completed for a list of works
RECURSIVE Complete(_, _)
Complete(rel, ws) ==
    IF ws = <<>> THEN rel
    ELSE Complete([rel EXCEPT ![Head(ws)] = @ + 1], Tail(ws))

InSlots(b) == {b.work[s] : s \in Slots} \ {NULL}
InQueue(b) == {b.active_wq[i] : i \in 1..Len(b.active_wq)}

(* ---------------- mutex ---------------- *)
\* variant: the call returns without taking the mutex
mutex_lock_skip(t) == lock' = lock

mutex_lock(t) == lock = "none" /\ lock' = t
mutex_unlock(t) == lock' = "none"

\* record of a step of thread t that touches the given chain fields
Step(t, fields, event, ret) ==
    [t |-> t, fields |-> fields, owner |-> lock, event |-> event, ret |-> ret,
     works |-> {}, info |-> <<>>]

NoStep ==
    [t |-> "none", fields |-> {}, owner |-> "none", event |-> "init", ret |-> 0,
     works |-> {}, info |-> <<>>]

(* ---------------- initial state ---------------- *)
\* the chain record after memset in init_btc08_chain
ZeroChain ==
    [work |-> [s \in Slots |-> NULL], last_queued_id |-> 0, active_wq |-> <<>>,
     sdiff |-> 0, is_processing_job |-> FALSE, num_cores |-> 0, perf |-> 0,
     num_chips |-> 0, num_active_chips |-> 0, disabled |-> FALSE,
     chips |-> <<>>, chips_ptr |-> "null"]

\* variant: the chip table is not zeroed
AllocChipsDirty(b, feature) ==
    [b EXCEPT !.chips = [i \in 1..b.num_active_chips |->
                            [ZeroChip EXCEPT !.rev = feature,
                                             !.num_cores = MaxCoresPerChip,
                                             !.perf = MaxCoresPerChip]],
              !.chips_ptr = "valid", !.disabled = FALSE]

\* calloc of the chip table followed by read_feature
AllocChips(b, feature) ==
    [b EXCEPT !.chips = [i \in 1..b.num_active_chips |->
                            [ZeroChip EXCEPT !.rev = feature]],
              !.chips_ptr = "valid", !.disabled = FALSE]

\* the chip-count check of init_btc08_chain / reinit_btc08_chip
EnoughChips(b) ==
    b.chips[b.num_chips].rev = FEATURE_FOR_FPGA \/ b.num_chips >= min_chips

\* the failure exit of reinit_btc08_chip, lines 2178-2182: the table is
\* freed and the pointer kept
ReinitFailure(b) ==
    IF b.chips_ptr = "valid" THEN [b EXCEPT !.chips_ptr = "dangling"] ELSE b

\* lines 2114-2120 of reinit_btc08_chip
ReinitReset(b) ==
    [b EXCEPT !.chips = <<>>, !.chips_ptr = "null", !.num_cores = 0,
              !.perf = 0, !.is_processing_job = FALSE]

\* BIST broadcast, check_chip loop and set_control
RunBist(b, bists) == BistLoop([b EXCEPT !.disabled = FALSE], bists, 1)

RECURSIVE NonceLoop(_, _, _)
\* a value stored in a uint32_t field
U32(x) == x % (2 ^ NonceBits)

\* the quotient at line 1181; q is what the division yields when
\* btc08->perf is zero
NonceShare(b, ii, q) ==
    IF b.perf = 0 THEN q ELSE (MAX_NONCE_SIZE * b.chips[ii].perf) \div b.perf

\* the loop of lines 1179-1183; ii is the 1-based index of the chip
NonceLoop(b, ii, q) ==
    IF ii >= b.num_chips THEN b
    ELSE LET e == U32(b.chips[ii].start_nonce + NonceShare(b, ii, q))
         IN NonceLoop([b EXCEPT !.chips[ii].end_nonce = e,
                                !.chips[ii + 1].start_nonce = U32(e + 1)],
                      ii + 1, q)

\* lines 1178-1184: the partition outside test mode
NonceRanges(b, q) ==
    LET b1 == NonceLoop([b EXCEPT !.chips[1].start_nonce = 0], 1, q)
    IN [b1 EXCEPT !.chips[b.num_chips].end_nonce = MAX_NONCE_SIZE]

\* what a division by zero may yield where it does not trap
DivZeroAnswers == {0, MAX_NONCE_SIZE}

\* calc_nonce_range: partitions the nonce space, clears disabled; a failed
\* WRITE_NONCE transfer sets disabled
calc_nonce_range(b, nonce_ok, q) ==
    [NonceRanges(b, q) EXCEPT !.disabled = ~nonce_ok]

\* the outcomes of the common body of init_btc08_chain and
\* reinit_btc08_chip, from the chain records chain_detect left, over all
\* answers of the chips: ok = the function's result, fault = the division by a zero perf
\* in calc_nonce_range was executed
BringUp(detects) ==
    LET found == {d \in detects : d.num_chips # 0}
        alloc == {AllocChips(d, f) : d \in found,
                                     f \in {FEATURE_FOR_FPGA, FEATURE_FOR_ASIC}}
        plls == UNION {{set_pll_config(c, locks) :
                           locks \in [1..c.num_chips -> BOOLEAN]} :
                       c \in {x \in alloc : EnoughChips(x)}}
        bist == UNION {{RunBist(p.b, bists) :
                           bists \in [1..p.b.num_chips -> BistAnswers]} :
                       p \in {x \in plls : x.ok}}
    IN {[b |-> ReinitFailure(d), ok |-> FALSE, fault |-> FALSE] :
            d \in detects \ found}
       \cup {[b |-> ReinitFailure(c), ok |-> FALSE, fault |-> FALSE] :
            c \in {x \in alloc : ~EnoughChips(x)}}
       \cup {[b |-> ReinitFailure(p.b), ok |-> FALSE, fault |-> FALSE] :
            p \in {x \in plls : ~x.ok}}
       \cup UNION {{[b |-> calc_nonce_range(c, nonce_ok, q), ok |-> TRUE,
                     fault |-> NonceDivByZero(c)] :
                        nonce_ok \in BOOLEAN,
                        q \in IF NonceDivByZero(c) THEN DivZeroAnswers ELSE {0}} :
                   c \in bist}

\* the answers chain_detect may get: echo, chips counted, ids confirmed
DetectAnswers ==
    {x \in BOOLEAN \X (0..MaxChipNum) \X (0..MaxChipNum) : x[3] <= x[2]}

\* the outcomes of the bring-up started on chain record b
ChainBringUp(b) ==
    BringUp({chain_detect(b, d[1], d[2], d[3]) : d \in DetectAnswers})

\* reinit_btc08_chip
reinit_btc08_chip(b) == ChainBringUp(ReinitReset(b))

InitHist ==
    [nset |-> 0, runJobId |-> 0, runSlot |-> 0, runWork |-> NULL,
     evicted |-> NULL, failWork |-> NULL, failLq |-> 0, spiFail |-> "none",
     flushHeld |-> {}, completed |-> 0, cleared |-> 0]

\* i, chip (the i of the chip loop) and nrp (nonce_ranges_processed) are
\* locals of btc08_scanwork; oon is the queue, last_queued_id and nrp that
\* the OON branch found
NoOon == [queue |-> <<>>, lq |-> 0, nrp |-> 0]

InitSw == [i |-> 0, chip |-> 0, nrp |-> 0, oon |-> NoOon]

\* the state when detect_single_chain has registered the chain: the body
\* of init_btc08_chain succeeded
Init ==
    /\ \E r \in ChainBringUp(ZeroChain) : r.ok /\ btc08 = r.b
    /\ deven = DEV_ENABLED
    /\ lock = "none"
    /\ pc = [t \in Threads |-> "idle"]
    /\ sw = InitSw
    /\ fl = [ok |-> TRUE]
    /\ nextWork = 1
    /\ released = [w \in Works |-> 0]
    /\ aborted = FALSE
    /\ hist = InitHist
    /\ last = NoStep

(* ---------------- environment answers ---------------- *)
\* get_gpio_value: line low (asserted), line high, or I/O failure
GpioAnswers == {0, 1, 0 - 1}
\* READ_JOB_ID byte 1 (last GN job id)
JobIdAnswers == {0, 1, 3, JOB_ID_NUM_MASK + 1, JOB_ID_NUM_MASK + 2}
\* READ_JOB_ID byte 3 (chip id echo): below the range, the first chip, above
\* the range
ChipIdAnswers == {0, 1, MaxChipNum + 1}
\* READ_RESULT byte 17 (micro job id bitmap)
MicroJobAnswers == {0, 1}

Bit(m, i) == (m \div (2 ^ i)) % 2
BitCount(m) == Bit(m, 0) + Bit(m, 1) + Bit(m, 2) + Bit(m, 3)

(* ---------------- history bookkeeping ---------------- *)
\* what a set_work call did, for the history record
HistSetWork(h, b, r, work) ==
    IF r.installed
    THEN [h EXCEPT !.nset = @ + 1, !.runJobId = r.job_id,
                   !.runSlot = b.last_queued_id, !.runWork = work,
                   !.evicted = b.work[b.last_queued_id]]
    ELSE [h EXCEPT !.failWork = work, !.failLq = b.last_queued_id,
                   !.spiFail = "scan"]

(* ---------------- btc08_scanwork ---------------- *)
\* variant: the counter is not clamped at zero
ScanRetUnclamped(nrp) == nrp * (2 ^ NonceBits) * ASIC_BOOST_CORE_NUM

\* lines 2697-2708: the value returned on the polling path; the shift by
\* 32 is by the width of a nonce
ScanRet(nrp) ==
    (IF nrp < 0 THEN 0 ELSE nrp) * (2 ^ NonceBits) * ASIC_BOOST_CORE_NUM

\* lines 2551-2555: the num_cores check, before the mutex is taken
ScanCheckCores ==
    /\ ~aborted /\ pc["scan"] = "idle"
    /\ IF btc08.num_cores = 0 \/ MAX_CORES < btc08.num_cores
       THEN /\ deven' = DEV_DISABLED
            /\ last' = Step("scan", {"num_cores"}, "scan_return", 0 - 1)
            /\ pc' = pc
       ELSE /\ deven' = deven
            /\ last' = Step("scan", {"num_cores"}, "scan_check", 0)
            /\ pc' = [pc EXCEPT !["scan"] = "sw_check_disabled"]
    /\ UNCHANGED <<btc08, lock, sw, fl, nextWork, released, aborted, hist>>

\* lines 2557-2561: the disabled check, before the mutex is taken
ScanCheckDisabled ==
    /\ ~aborted /\ pc["scan"] = "sw_check_disabled"
    /\ IF btc08.disabled
       THEN /\ deven' = DEV_DISABLED
            /\ last' = Step("scan", {"disabled"}, "scan_return", 0 - 1)
            /\ pc' = [pc EXCEPT !["scan"] = "idle"]
       ELSE /\ deven' = deven
            /\ last' = Step("scan", {"disabled"}, "scan_check", 0)
            /\ pc' = [pc EXCEPT !["scan"] = "sw_lock"]
    /\ UNCHANGED <<btc08, lock, sw, fl, nextWork, released, aborted, hist>>

\* line 2563
ScanLock ==
    /\ ~aborted /\ pc["scan"] = "sw_lock"
    /\ mutex_lock("scan")
    /\ pc' = [pc EXCEPT !["scan"] = "sw_start"]
    /\ last' = Step("scan", {}, "lock", 0)
    /\ UNCHANGED <<btc08, deven, sw, fl, nextWork, released, aborted, hist>>

\* variant: the initial fill is run by every btc08_scanwork call
ScanStartAlwaysFill ==
    /\ ~aborted /\ pc["scan"] = "sw_start"
    /\ last' = Step("scan", {"is_processing_job"}, "scan_start", 0)
    /\ pc' = [pc EXCEPT !["scan"] = "sw_fill"]
    /\ sw' = [sw EXCEPT !.i = 0]
    /\ UNCHANGED <<btc08, deven, lock, fl, nextWork, released, aborted, hist>>

\* line 2568
ScanStart ==
    /\ ~aborted /\ pc["scan"] = "sw_start"
    /\ last' = Step("scan", {"is_processing_job"}, "scan_start", 0)
    /\ pc' = [pc EXCEPT !["scan"] =
                 IF btc08.is_processing_job THEN "sw_poll" ELSE "sw_fill"]
    /\ sw' = [sw EXCEPT !.i = 0]
    /\ UNCHANGED <<btc08, deven, lock, fl, nextWork, released, aborted, hist>>

SetWorkFields ==
    {"active_wq", "work", "last_queued_id", "sdiff", "disabled", "is_processing_job"}

\* one iteration of a loop that dequeues a work and calls set_work: the
\* initial fill (count = MAX_JOB_FIFO, underflow is a failure) and the OON
\* refill (count = 2, underflow ends the loop)
ScheduleStep(here, count, underflow, after) ==
    LET d == wq_dequeue(btc08.active_wq)
        b0 == [btc08 EXCEPT !.active_wq = d.wq]
    IN /\ ~aborted /\ pc["scan"] = here
       /\ UNCHANGED <<deven, lock, fl, nextWork>>
       /\ IF d.work = NULL
          THEN /\ pc' = [pc EXCEPT !["scan"] = underflow]
               /\ last' = Step("scan", {"active_wq"}, "underflow", 0)
               /\ UNCHANGED <<btc08, sw, released, aborted, hist>>
          ELSE \E ok \in BOOLEAN :
               LET r == set_work(b0, d.work, ok)
               IN /\ released' = Complete(released, r.completed)
                  /\ aborted' = r.aborted
                  /\ hist' = HistSetWork(hist, b0, r, d.work)
                  /\ last' = Step("scan", SetWorkFields, "set_work", r.job_id)
                  /\ IF r.aborted
                     THEN /\ btc08' = r.b
                          /\ UNCHANGED <<pc, sw>>
                     ELSE IF r.b.disabled
                     THEN /\ btc08' = r.b
                          /\ pc' = [pc EXCEPT !["scan"] = "sw_failure"]
                          /\ sw' = sw
                     ELSE /\ btc08' = [r.b EXCEPT !.is_processing_job = TRUE]
                          /\ sw' = [sw EXCEPT !.i = @ + 1]
                          /\ pc' = [pc EXCEPT !["scan"] =
                                 IF sw.i + 1 < count THEN here ELSE after]

\* lines 2568-2587
ScanFill == ScheduleStep("sw_fill", MAX_JOB_FIFO, "sw_failure", "sw_poll")

\* lines 2711-2713
ScanFailure ==
    /\ ~aborted /\ pc["scan"] = "sw_failure"
    /\ mutex_unlock("scan")
    /\ sw' = InitSw
    /\ last' = Step("scan", {}, "scan_return", 0)
    /\ pc' = [pc EXCEPT !["scan"] = "idle"]
    /\ UNCHANGED <<btc08, deven, fl, nextWork, released, aborted, hist>>

\* line 2592: read the GN line
ScanPollGNStep(answers) ==
    /\ ~aborted /\ pc["scan"] = "sw_poll"
    /\ \E gn \in answers :
          IF gn = 0
          THEN /\ pc' = [pc EXCEPT !["scan"] = "sw_gn"]
               /\ sw' = [sw EXCEPT !.chip = 1]
          ELSE /\ pc' = [pc EXCEPT !["scan"] = "sw_oon"]
               /\ sw' = sw
    /\ last' = Step("scan", {}, "poll_gn", 0)
    /\ UNCHANGED <<btc08, deven, lock, fl, nextWork, released, aborted, hist>>

ScanPollGN == ScanPollGNStep(GpioAnswers)

\* the bits of the 4-bit micro job bitmap that are set
SetBits(micro_job_id) ==
    {i \in 0..(ASIC_BOOST_CORE_NUM - 1) : Bit(micro_job_id, i) = 1}

\* lines 2629-2658: the nonce loop from index i; accept is the set of
\* indices whose nonce submit_nonce accepts, r the counts so far
RECURSIVE SubmitLoop(_, _, _, _)
SubmitLoop(micro_job_id, accept, i, r) ==
    IF i >= ASIC_BOOST_CORE_NUM THEN r
    ELSE IF Bit(micro_job_id, i) = 0
    THEN SubmitLoop(micro_job_id, accept, i + 1, r)
    ELSE IF i \notin accept
    THEN SubmitLoop(micro_job_id, accept, i + 1,
                    [r EXCEPT !.submits = Append(@, i), !.hw_errors = @ + 1,
                              !.nrp = @ - 1])
    ELSE SubmitLoop(micro_job_id, accept, i + 1,
                    [r EXCEPT !.submits = Append(@, i), !.nonces_found = @ + 1])

\* the counts of a result that touched nothing
NoCounts ==
    [stales |-> 0, hw_errors |-> 0, nonces_found |-> 0, submits |-> <<>>,
     nrp |-> 0, looped |-> FALSE]

\* variant: a result for an empty slot is booked as a hardware error
gn_result_as_error(b, job_id, micro_job_id, accept) ==
    IF b.work[job_id - 1] = NULL
    THEN [NoCounts EXCEPT !.hw_errors = 1, !.nrp = 0 - 1]
    ELSE [SubmitLoop(micro_job_id, accept, 0, NoCounts) EXCEPT !.looped = TRUE]

\* lines 2617-2658: the result of a chip whose ids are in range: what is
\* added to the chip's stales, hw_errors and nonces_found and to
\* nonce_ranges_processed (nrp), the nonce indices handed to submit_nonce,
\* and whether the nonce loop ran
gn_result(b, job_id, micro_job_id, accept) ==
    IF b.work[job_id - 1] = NULL
    THEN [NoCounts EXCEPT !.stales = 1]
    ELSE [SubmitLoop(micro_job_id, accept, 0, NoCounts) EXCEPT !.looped = TRUE]

\* the step of the chip loop after a result.  The nonce loop at line 2629
\* counts with the chip loop's own i, so after it the chip loop continues
\* from ASIC_BOOST_CORE_NUM + 1.
ScanResult(gn_job_id, chip_id, micros, penalty) ==
    \E micro_job_id \in micros :
    \E accept \in SUBSET SetBits(micro_job_id) :
       LET r == gn_result(btc08, gn_job_id, micro_job_id, accept)
       IN /\ sw.nrp + r.nrp >= 0 - penalty
          \* the bitmap of a stale result is only logged
          /\ btc08.work[gn_job_id - 1] = NULL => (micro_job_id = 0 /\ accept = {})
          /\ sw' = [sw EXCEPT !.chip = IF r.looped THEN ASIC_BOOST_CORE_NUM + 1
                                       ELSE @ + 1,
                              !.nrp = @ + r.nrp]
          /\ last' = [Step("scan", {"num_active_chips", "disabled", "work", "chips"},
                           "gn_result", gn_job_id)
                         EXCEPT !.info = [chip |-> chip_id,
                                          micro_job_id |-> micro_job_id,
                                          accept |-> accept, counts |-> r]]

\* lines 2595-2661: one iteration of the chip loop; micros are the bitmaps
\* READ_RESULT may carry, penalty caps the hardware errors of a tick
ScanGNJobs(jobs, micros, penalty) ==
    /\ ~aborted /\ pc["scan"] = "sw_gn"
    /\ UNCHANGED <<deven, lock, fl, nextWork, released>>
    /\ IF sw.chip > btc08.num_active_chips
       THEN /\ pc' = [pc EXCEPT !["scan"] = "sw_oon"]
            /\ last' = Step("scan", {"num_active_chips"}, "gn_done", 0)
            /\ sw' = [sw EXCEPT !.chip = 0]
            /\ UNCHANGED <<btc08, aborted, hist>>
       ELSE \/ \* cmd_READ_JOB_ID: the assert on the transfer fails
               /\ aborted' = TRUE
               /\ hist' = [hist EXCEPT !.spiFail = "scan"]
               /\ last' = Step("scan", {"num_active_chips"}, "READ_JOB_ID", 0)
               /\ UNCHANGED <<btc08, sw, pc>>
            \/ \* READ_JOB_ID answers without a pending GN
               /\ btc08' = [btc08 EXCEPT !.disabled = FALSE]
               /\ sw' = [sw EXCEPT !.chip = @ + 1]
               /\ last' = Step("scan", {"num_active_chips", "disabled"},
                               "READ_JOB_ID", 0)
               /\ UNCHANGED <<pc, aborted, hist>>
            \/ \* GN pending; get_nonce: the assert in cmd_READ_RESULT fails
               /\ aborted' = TRUE
               /\ btc08' = [btc08 EXCEPT !.disabled = FALSE]
               /\ hist' = [hist EXCEPT !.spiFail = "scan"]
               /\ last' = Step("scan", {"num_active_chips", "disabled"},
                               "READ_RESULT", 0)
               /\ UNCHANGED <<sw, pc>>
            \/ \* GN pending and READ_RESULT answered
               \E gn_job_id \in jobs, chip_id \in ChipIdAnswers :
                  /\ btc08' = [btc08 EXCEPT !.disabled = FALSE]
                  /\ UNCHANGED <<pc, aborted, hist>>
                  /\ IF \/ chip_id < 1 \/ chip_id > btc08.num_active_chips
                        \/ gn_job_id < 1 \/ gn_job_id > JOB_ID_NUM_MASK + 1
                     THEN /\ sw' = [sw EXCEPT !.chip = @ + 1]
                          /\ last' = Step("scan", {"num_active_chips", "disabled"},
                                          "READ_RESULT", 0)
                     ELSE ScanResult(gn_job_id, chip_id, micros, penalty)

\* the chip loop with any job id in READ_JOB_ID byte 1
ScanGNStep(micros, penalty) == ScanGNJobs(JobIdAnswers, micros, penalty)

ScanGN == ScanGNStep(MicroJobAnswers, MaxPenalty)

\* variant: the broadcast is not sent
cmd_CLEAR_OON_skip(b, ok) == [b |-> b, aborted |-> FALSE, sent |-> FALSE]

\* lines 565-585: cmd_CLEAR_OON; ok is the result of the transfer, which
\* is made inside an assert
cmd_CLEAR_OON(b, ok) ==
    IF ok THEN [b |-> [b EXCEPT !.disabled = FALSE], aborted |-> FALSE,
                sent |-> TRUE]
    ELSE [b |-> b, aborted |-> TRUE, sent |-> TRUE]

\* lines 2665-2671 and 2692: read the OON line; CLEAR_OON when asserted
ScanPollOONStep(answers, cleared) ==
    /\ ~aborted /\ pc["scan"] = "sw_oon"
    /\ UNCHANGED <<deven, lock, fl, nextWork, released>>
    /\ \E oon \in answers, ok \in BOOLEAN :
          IF oon # 0
          THEN /\ pc' = [pc EXCEPT !["scan"] = "sw_poll"]
               /\ last' = Step("scan", {}, "poll_oon", 0)
               /\ UNCHANGED <<btc08, sw, aborted, hist>>
          ELSE LET r == cmd_CLEAR_OON(btc08, ok)
                   event == IF r.sent THEN "CLEAR_OON" ELSE "poll_oon"
               IN /\ btc08' = r.b
                  /\ aborted' = r.aborted
                  /\ IF r.aborted
                     THEN /\ sw' = [sw EXCEPT !.nrp = @ + 2]
                          /\ hist' = [hist EXCEPT !.spiFail = "scan"]
                          /\ last' = Step("scan", {}, event, 0)
                          /\ pc' = pc
                     ELSE /\ sw' = [sw EXCEPT !.nrp = @ + 2, !.i = 0,
                                             !.oon = [queue |-> btc08.active_wq,
                                                      lq |-> btc08.last_queued_id,
                                                      nrp |-> sw.nrp]]
                          /\ last' = Step("scan", {"disabled"}, event, 0)
                          /\ pc' = [pc EXCEPT !["scan"] = "sw_refill"]
                          /\ hist' = cleared

ScanPollOON == ScanPollOONStep(GpioAnswers, hist)

\* variant: one work is scheduled per OON
ScanRefillOne == ScheduleStep("sw_refill", 1, "sw_unlock", "sw_unlock")

\* lines 2673-2689
ScanRefill == ScheduleStep("sw_refill", OON_REFILL, "sw_unlock", "sw_unlock")

\* lines 2695-2709
ScanUnlock ==
    /\ ~aborted /\ pc["scan"] = "sw_unlock"
    /\ mutex_unlock("scan")
    /\ sw' = InitSw
    /\ last' = [Step("scan", {}, "scan_result", ScanRet(sw.nrp))
                   EXCEPT !.info = [nrp |-> sw.nrp, oon |-> sw.oon]]
    /\ pc' = [pc EXCEPT !["scan"] = "idle"]
    /\ UNCHANGED <<btc08, deven, fl, nextWork, released, aborted, hist>>

(* ---------------- btc08_queue_full ---------------- *)
\* line 2723
QueueLock ==
    /\ ~aborted /\ pc["queue"] = "idle"
    /\ mutex_lock("queue")
    /\ pc' = [pc EXCEPT !["queue"] = "qf_body"]
    /\ last' = Step("queue", {}, "lock", 0)
    /\ UNCHANGED <<btc08, deven, sw, fl, nextWork, released, aborted, hist>>

\* get_queued: a fresh work, or NULL when the host has none
HostWorks == {NULL} \cup (IF nextWork <= MaxWorks THEN {nextWork} ELSE {})

\* variant: the queue is full only above the threshold
QueueIsFullAbove(wq) == Len(wq) > MAX_JOB_FIFO * 10

\* line 2727
QueueIsFull(wq) == Len(wq) >= MAX_JOB_FIFO * 10

\* lines 2727-2734, with get_queued answering from the set host
QueueStep(host) ==
    /\ ~aborted /\ pc["queue"] = "qf_body"
    /\ IF QueueIsFull(btc08.active_wq)
       THEN /\ last' = Step("queue", {"active_wq"}, "queue_return", 1)
            /\ UNCHANGED <<btc08, nextWork>>
       ELSE /\ last' = Step("queue", {"active_wq"}, "queue_return", 0)
            /\ \E work \in host :
               /\ btc08' = [btc08 EXCEPT
                              !.active_wq = wq_enqueue(btc08.active_wq, work).wq]
               /\ nextWork' = IF work = NULL THEN nextWork ELSE nextWork + 1
    /\ mutex_unlock("queue")
    /\ pc' = [pc EXCEPT !["queue"] = "idle"]
    /\ UNCHANGED <<deven, sw, fl, released, aborted, hist>>

\* lines 2727-2734
QueueBody == QueueStep(HostWorks)

(* ---------------- btc08_flush_work ---------------- *)
\* line 2745
FlushLock ==
    /\ ~aborted /\ pc["flush"] = "idle"
    /\ mutex_lock("flush")
    /\ pc' = [pc EXCEPT !["flush"] = "fw_flush"]
    /\ last' = Step("flush", {}, "lock", 0)
    /\ UNCHANGED <<btc08, deven, sw, fl, nextWork, released, aborted, hist>>

\* the works flush_work hands to work_completed: slots 0..7, then the queue
RECURSIVE SlotWorks(_, _)
SlotWorks(b, s) ==
    IF s > JOB_ID_NUM_MASK THEN <<>>
    ELSE (IF b.work[s] = NULL THEN <<>> ELSE <<b.work[s]>>) \o SlotWorks(b, s + 1)

\* variant: sdiff and last_queued_id survive the flush
FlushChainKeep(b) ==
    [b EXCEPT !.work = [s \in Slots |-> NULL], !.active_wq = <<>>,
              !.is_processing_job = FALSE, !.num_cores = 0, !.perf = 0]

\* lines 2756-2778
FlushChain(b) ==
    [b EXCEPT !.work = [s \in Slots |-> NULL], !.active_wq = <<>>,
              !.sdiff = 0, !.is_processing_job = FALSE, !.num_cores = 0,
              !.perf = 0, !.last_queued_id = 0]

FlushFields ==
    {"work", "active_wq", "sdiff", "is_processing_job", "num_cores", "perf",
     "last_queued_id"}

\* lines 2751-2778: abort_work, release slots and queue, clear the fields
FlushWork ==
    /\ ~aborted /\ pc["flush"] = "fw_flush"
    /\ released' = Complete(released, SlotWorks(btc08, 0) \o btc08.active_wq)
    /\ btc08' = FlushChain(btc08)
    /\ hist' = [InitHist EXCEPT !.flushHeld = InSlots(btc08) \cup InQueue(btc08)]
    /\ last' = Step("flush", FlushFields, "flush", 0)
    /\ pc' = [pc EXCEPT !["flush"] = "fw_reinit"]
    /\ UNCHANGED <<deven, lock, sw, fl, nextWork, aborted>>

ReinitFields ==
    {"chips", "num_chips", "num_active_chips", "num_cores", "perf", "disabled",
     "is_processing_job"}

\* line 2781: reinit_btc08_chip.  The process is terminated when an
\* exec_cmd transfer fails its assert; it may be when the chip table is
\* freed a second time (line 2115 after line 2180) and when the partition
\* loop divides by a zero perf.
FlushReinit ==
    /\ ~aborted /\ pc["flush"] = "fw_reinit"
    /\ last' = [Step("flush", ReinitFields, "reinit", 0)
                   EXCEPT !.info = [chips_ptr |-> btc08.chips_ptr]]
    /\ pc' = [pc EXCEPT !["flush"] = "fw_unlock"]
    /\ UNCHANGED <<deven, lock, sw, nextWork, released>>
    /\ \/ /\ aborted' = TRUE
          /\ hist' = [hist EXCEPT !.spiFail = "flush"]
          /\ UNCHANGED <<btc08, fl>>
       \/ \E r \in reinit_btc08_chip(btc08) :
             /\ btc08' = r.b
             /\ fl' = [fl EXCEPT !.ok = r.ok]
             /\ hist' = hist
             /\ \/ aborted' = aborted
                \/ (r.fault \/ btc08.chips_ptr = "dangling") /\ aborted' = TRUE

\* lines 2781-2785
FlushUnlock ==
    /\ ~aborted /\ pc["flush"] = "fw_unlock"
    /\ deven' = IF ~fl.ok THEN DEV_DISABLED ELSE deven
    /\ mutex_unlock("flush")
    /\ hist' = [hist EXCEPT !.flushHeld = {}]
    /\ fl' = [fl EXCEPT !.ok = TRUE]
    /\ last' = [Step("flush", {}, "flush_return", IF fl.ok THEN 1 ELSE 0)
                   EXCEPT !.works = hist.flushHeld]
    /\ pc' = [pc EXCEPT !["flush"] = "idle"]
    /\ UNCHANGED <<btc08, sw, nextWork, released, aborted>>

(* ---------------- specification ---------------- *)
Next ==
    \/ ScanCheckCores \/ ScanCheckDisabled \/ ScanLock \/ ScanStart
    \/ ScanFill \/ ScanFailure \/ ScanPollGN \/ ScanGN \/ ScanPollOON
    \/ ScanRefill \/ ScanUnlock
    \/ QueueLock \/ QueueBody
    \/ FlushLock \/ FlushWork \/ FlushReinit \/ FlushUnlock

Spec == Init /\ [][Next]_vars

(* ---------------- specification with the job FIFO of the chips ---------------- *)
\* The driver of Spec together with the chips' job FIFO.  hist.nset counts
\* the RUN_JOB commands since the last hardware reset (abort_work in
\* flush_work), hist.completed the jobs the chips have completed since then,
\* hist.cleared the value of hist.completed at the last CLEAR_OON.  The
\* chips assert OON only after OON_INT_MAXJOB completions since the last
\* CLEAR_OON.
JobsInFifo == hist.nset - hist.completed

\* the chips complete the oldest job of their FIFO
ChipComplete ==
    /\ ~aborted /\ JobsInFifo > 0
    /\ hist' = [hist EXCEPT !.completed = @ + 1]
    /\ last' = Step("none", {}, "job_done", 0)
    /\ UNCHANGED <<btc08, deven, lock, pc, sw, fl, nextWork, released, aborted>>

\* what the OON line reads
ChipOonAnswers ==
    IF hist.completed - hist.cleared >= OON_INT_MAXJOB
    THEN GpioAnswers ELSE GpioAnswers \ {0}

ScanPollOONChips ==
    ScanPollOONStep(ChipOonAnswers, [hist EXCEPT !.cleared = hist.completed])

\* the chips find no golden nonce: the GN line is never read asserted
ScanPollGNIdle == ScanPollGNStep(GpioAnswers \ {0})

NextFifo ==
    \/ ScanCheckCores \/ ScanCheckDisabled \/ ScanLock \/ ScanStart
    \/ ScanFill \/ ScanFailure \/ ScanPollGNIdle \/ ScanPollOONChips
    \/ ScanRefill \/ ScanUnlock
    \/ QueueLock \/ QueueBody
    \/ FlushLock \/ FlushWork \/ FlushReinit \/ FlushUnlock
    \/ ChipComplete

SpecFifo == Init /\ [][NextFifo]_vars

\* The jobs the chips can still report a golden nonce for: the jobs in
\* their FIFO and the job they completed last, numbered by their RUN_JOB
\* since the last hardware reset
ReportableJobs == {n \in 1..hist.nset : n >= hist.completed}

\* the job id and the work of the n-th RUN_JOB, counted back from the last
\* one (hist.runJobId, hist.runWork): set_work takes job ids and works in
\* sequence
JobIdOfIssue(n) ==
    ((hist.runJobId - 1 + (JOB_ID_NUM_MASK + 1) * MaxWorks - (hist.nset - n))
        % (JOB_ID_NUM_MASK + 1)) + 1

WorkOfIssue(n) == hist.runWork - (hist.nset - n)

\* scanwork and the work queue with chips that report golden nonces for
\* the jobs they can still report
ReportableJobIds == {JobIdOfIssue(n) : n \in ReportableJobs}

ScanGNChips == ScanGNJobs(ReportableJobIds, {1}, MaxPenalty)

NextCorrelate ==
    \/ ScanCheckCores \/ ScanCheckDisabled \/ ScanLock \/ ScanStart
    \/ ScanFill \/ ScanFailure \/ ScanPollGN \/ ScanGNChips \/ ScanPollOONChips
    \/ ScanRefill \/ ScanUnlock
    \/ QueueLock \/ QueueBody
    \/ ChipComplete

SpecCorrelate == Init /\ [][NextCorrelate]_vars

(* ---------------- specification of the pending queue ---------------- *)
\* The host keeps calling btc08_queue_full while the consumer (the
\* wq_dequeue calls of btc08_scanwork) takes works one at a time: the
\* queue reaches the threshold MAX_JOB_FIFO * 10.

\* get_queued of a host that has QueueWorks works to hand out
DeepHostWorks == {NULL} \cup (IF nextWork <= QueueWorks THEN {nextWork} ELSE {})

\* lines 2727-2734
QueueBodyDeep == QueueStep(DeepHostWorks)

\* lines 2573 and 2676: one wq_dequeue of btc08_scanwork, under the mutex
QueueConsume ==
    /\ ~aborted /\ lock = "none"
    /\ LET d == wq_dequeue(btc08.active_wq)
       IN /\ btc08' = [btc08 EXCEPT !.active_wq = d.wq]
          /\ last' = [Step("scan", {"active_wq"}, "wq_dequeue", d.work)
                         EXCEPT !.owner = "scan"]
    /\ UNCHANGED <<deven, lock, pc, sw, fl, nextWork, released, aborted, hist>>

NextQueue == QueueLock \/ QueueBodyDeep \/ QueueConsume

SpecQueue == Init /\ [][NextQueue]_vars

(* ---------------- specification of the work list ---------------- *)
\* struct work_queue as the driver stores it: the linked list of entries
\* (first entry = head.next) and the counter num_elems, kept separately.

\* variant: list_add instead of list_add_tail
list_add(list, work) == <<work>> \o list

\* list_add_tail at line 155
list_add_tail(list, work) == Append(list, work)

\* wq_enqueue on the list and the counter
ListEnqueue(wq, work) ==
    IF work = NULL THEN [wq |-> wq, ret |-> FALSE]
    ELSE [wq |-> [list |-> list_add_tail(wq.list, work),
                  num_elems |-> wq.num_elems + 1],
          ret |-> TRUE]

\* wq_dequeue on the list and the counter
ListDequeue(wq) ==
    IF wq.num_elems = 0 THEN [wq |-> wq, work |-> NULL]
    ELSE [wq |-> [list |-> Tail(wq.list), num_elems |-> wq.num_elems - 1],
          work |-> Head(wq.list)]

\* INIT_LIST_HEAD at line 2292 on the zeroed chain record
InitList ==
    /\ btc08 = [active_wq |-> [list |-> <<>>, num_elems |-> 0]]
    /\ hist = [fifo |-> <<>>, expect |-> 0]
    /\ deven = DEV_ENABLED
    /\ lock = "none"
    /\ pc = [t \in Threads |-> "idle"]
    /\ sw = InitSw
    /\ fl = [ok |-> TRUE]
    /\ nextWork = 1
    /\ released = [w \in Works |-> 0]
    /\ aborted = FALSE
    /\ last = NoStep

\* a call of wq_enqueue; hist follows the FIFO sequence
ListEnqueueStep ==
    /\ btc08.active_wq.num_elems < MaxListLen
    /\ \E work \in Works \cup {NULL} :
          LET r == ListEnqueue(btc08.active_wq, work)
              a == wq_enqueue(hist.fifo, work)
          IN /\ btc08' = [btc08 EXCEPT !.active_wq = r.wq]
             /\ hist' = [fifo |-> a.wq, expect |-> IF a.ret THEN 1 ELSE 0]
             /\ last' = Step("queue", {"active_wq"}, "wq_enqueue",
                             IF r.ret THEN 1 ELSE 0)
    /\ UNCHANGED <<deven, lock, pc, sw, fl, nextWork, released, aborted>>

\* a call of wq_dequeue; hist follows the FIFO sequence
ListDequeueStep ==
    /\ LET r == ListDequeue(btc08.active_wq)
           a == wq_dequeue(hist.fifo)
       IN /\ btc08' = [btc08 EXCEPT !.active_wq = r.wq]
          /\ hist' = [fifo |-> a.wq, expect |-> a.work]
          /\ last' = Step("scan", {"active_wq"}, "wq_dequeue", r.work)
    /\ UNCHANGED <<deven, lock, pc, sw, fl, nextWork, released, aborted>>

NextList == ListEnqueueStep \/ ListDequeueStep

SpecList == InitList /\ [][NextList]_vars

(* ---------------- specification of the nonce partition ---------------- *)
\* calc_nonce_range applied to chains of up to MaxNonceChips chips, for
\* every outcome of the BIST of each chip.

\* READ_BIST answers: busy, or any number of passing cores
NonceBistAnswers == {BIST_BUSY} \cup (0..MaxCoresPerChip)

\* the chain record when init_btc08_chain reaches calc_nonce_range
NonceChains ==
    UNION {{RunBist(set_pll_config(
                       AllocChips([ZeroChain EXCEPT !.num_chips = n,
                                                    !.num_active_chips = n], f),
                       [i \in 1..n |-> TRUE]).b, bists) :
               bists \in [1..n -> NonceBistAnswers],
               f \in {FEATURE_FOR_FPGA, FEATURE_FOR_ASIC}} :
           n \in 1..MaxNonceChips}

InitNonce ==
    /\ btc08 \in NonceChains
    /\ deven = DEV_ENABLED
    /\ lock = "none"
    /\ pc = [t \in Threads |-> "idle"]
    /\ sw = InitSw
    /\ fl = [ok |-> TRUE]
    /\ nextWork = 1
    /\ released = [w \in Works |-> 0]
    /\ aborted = FALSE
    /\ hist = InitHist
    /\ last = NoStep

\* line 2260: the call of calc_nonce_range
NonceStep ==
    /\ ~aborted /\ last.event = "init"
    /\ last' = Step("init", {"chips", "disabled"}, "calc_nonce_range", 0)
    /\ \/ /\ NonceDivByZero(btc08)
          /\ aborted' = TRUE
          /\ btc08' = btc08
       \/ /\ aborted' = aborted
          /\ \E nonce_ok \in BOOLEAN,
                q \in IF NonceDivByZero(btc08) THEN DivZeroAnswers ELSE {0} :
                btc08' = calc_nonce_range(btc08, nonce_ok, q)
    /\ UNCHANGED <<deven, lock, pc, sw, fl, nextWork, released, hist>>

NextNonce == NonceStep

SpecNonce == InitNonce /\ [][NextNonce]_vars

(* ---------------- specification of reinit_chain ---------------- *)
\* reinit_chain, the re-initialisation that keeps the chip table, applied
\* to an initialised chain.

\* lines 1472-1483: the PLL of every chip is set again from chip->mhz
RECURSIVE ReinitPllLoop(_, _, _)
ReinitPllLoop(b, locks, ii) ==
    IF ii > b.num_chips THEN [b |-> b, ok |-> TRUE]
    ELSE LET r == set_pll_config_chip(b, ii, b.chips[ii].mhz, locks[ii])
         IN IF r.ok THEN ReinitPllLoop(r.b, locks, ii + 1)
            ELSE [b |-> [r.b EXCEPT !.disabled = TRUE], ok |-> FALSE]

\* reinit_chain with last_chip = 0
reinit_chain(b, locks, bists, nonce_ok, q) ==
    LET p == ReinitPllLoop(b, locks, 1)
        b1 == [p.b EXCEPT !.num_cores = 0, !.perf = 0,
                          !.is_processing_job = FALSE]
        b2 == RunBist(b1, bists)
    IN IF ~p.ok THEN p
       ELSE [b |-> calc_nonce_range(b2, nonce_ok,
                      IF NonceDivByZero(b2) THEN q ELSE 0),
             ok |-> TRUE]

\* a call of reinit_chain
ReinitChainStep ==
    /\ ~aborted
    /\ \E locks \in [1..btc08.num_chips -> BOOLEAN],
          bists \in [1..btc08.num_chips -> BistAnswers],
          nonce_ok \in BOOLEAN, q \in DivZeroAnswers :
          LET r == reinit_chain(btc08, locks, bists, nonce_ok, q)
          IN /\ btc08' = r.b
             /\ last' = Step("scan", ReinitFields, "reinit_chain",
                             IF r.ok THEN 1 ELSE 0)
    /\ UNCHANGED <<deven, lock, pc, sw, fl, nextWork, released, aborted, hist>>

NextReinitChain == ReinitChainStep

SpecReinitChain == Init /\ [][NextReinitChain]_vars

(* ---------------- specification of check_disabled_chips ---------------- *)
\* check_disabled_chips called again and again on an initialised chain with
\* last_chip = 0.  hist.last_chip is btc08->last_chip; once a chip has been
\* disabled as the new last chip the call goes on to set_last_chip with a
\* shortened chain, which this specification does not follow.  All chips
\* give the same PLL lock and BIST answer in one call.
READ_ID_FAILED == 0 - 1

\* cmd_READ_ID per chip: no answer, or the number of jobs in flight (ret[2] & 7)
ReadIdAnswers == {READ_ID_FAILED, 0, OON_INT_MAXJOB}

\* lines 1548-1552 and 1565-1569: the chip is taken out of the chain
DisableChip(b, i) ==
    [b EXCEPT !.num_cores = @ - b.chips[i].num_cores,
              !.chips[i].num_cores = 0, !.chips[i].mhz = 0,
              !.chips[i].perf = 0]

RECURSIVE CheckLoop(_, _, _, _)
\* the loop of lines 1527-1577 from chip i (1-based) downwards
CheckLoop(b, i, ids, reset_flag) ==
    IF i < 1 THEN [b |-> b, reset_flag |-> reset_flag, new_last_chip |-> 0]
    ELSE IF ids[i] = READ_ID_FAILED
    THEN [b |-> DisableChip(b, i), reset_flag |-> TRUE, new_last_chip |-> i]
    ELSE IF b.chips[b.num_chips].rev # FEATURE_FOR_FPGA
            /\ ids[i] >= OON_INT_MAXJOB
    THEN IF b.chips[i].mhz > pll_sets[1]
         THEN CheckLoop([b EXCEPT !.chips[i].mhz = @ - PLL_STEP_DOWN], i - 1,
                        ids, TRUE)
         ELSE [b |-> DisableChip(b, i), reset_flag |-> TRUE,
               new_last_chip |-> i]
    ELSE CheckLoop(b, i - 1, ids, reset_flag)

InitStepDown ==
    /\ \E r \in ChainBringUp(ZeroChain) : r.ok /\ btc08 = r.b
    /\ deven = DEV_ENABLED
    /\ lock = "none"
    /\ pc = [t \in Threads |-> "idle"]
    /\ sw = InitSw
    /\ fl = [ok |-> TRUE]
    /\ nextWork = 1
    /\ released = [w \in Works |-> 0]
    /\ aborted = FALSE
    /\ hist = [last_chip |-> 0]
    /\ last = [NoStep EXCEPT !.event = "boot"]

\* a call of check_disabled_chips
CheckDisabledStep ==
    /\ ~aborted /\ hist.last_chip = 0
    /\ \E ids \in [1..btc08.num_chips -> ReadIdAnswers],
          lock_ok \in BOOLEAN, bist \in BistAnswers, nonce_ok \in BOOLEAN :
          LET c == CheckLoop(btc08, btc08.num_chips, ids, FALSE)
              locks == [k \in 1..btc08.num_chips |-> lock_ok]
              bists == [k \in 1..btc08.num_chips |-> bist]
              r == reinit_chain(c.b, locks, bists, nonce_ok, 0)
              info == [ids |-> ids, answers_ok |-> lock_ok /\ nonce_ok,
                       before |-> [k \in 1..btc08.num_chips |-> btc08.chips[k].mhz],
                       after |-> [k \in 1..btc08.num_chips |-> c.b.chips[k].mhz],
                       new_last_chip |-> c.new_last_chip]
          IN IF ~c.reset_flag
             THEN /\ btc08' = btc08 /\ hist' = hist /\ aborted' = aborted
                  /\ last' = [Step("scan", {}, "no_errors", 1)
                                 EXCEPT !.info = info]
             ELSE IF c.new_last_chip # 0
             THEN /\ btc08' = c.b /\ aborted' = aborted
                  /\ hist' = [hist EXCEPT !.last_chip = c.new_last_chip]
                  /\ last' = [Step("scan", ReinitFields, "set_last_chip", 0)
                                 EXCEPT !.info = info]
             ELSE /\ hist' = hist
                  /\ last' = [Step("scan", ReinitFields, "check_disabled_chips",
                                   IF r.ok THEN 1 ELSE 0) EXCEPT !.info = info]
                  /\ IF r.ok /\ NonceDivByZero(RunBist(c.b, bists))
                     THEN aborted' = TRUE /\ btc08' = c.b
                     ELSE aborted' = aborted /\ btc08' = r.b
    /\ UNCHANGED <<deven, lock, pc, sw, fl, nextWork, released>>

NextStepDown == CheckDisabledStep

SpecStepDown == InitStepDown /\ [][NextStepDown]_vars

(* ---------------- specification from chain detection ---------------- *)
\* detect_single_chain runs init_btc08_chain on the zeroed chain record and
\* registers the device with add_cgpu only when it succeeds; the host
\* calls the driver only for a registered device.

InitDetect ==
    /\ btc08 = ZeroChain
    /\ deven = DEV_ENABLED
    /\ lock = "none"
    /\ pc = [t \in Threads |-> "idle"]
    /\ sw = InitSw
    /\ fl = [ok |-> TRUE]
    /\ nextWork = 1
    /\ released = [w \in Works |-> 0]
    /\ aborted = FALSE
    /\ hist = InitHist
    /\ last = [NoStep EXCEPT !.event = "boot"]

\* lines 2301-2325; the step records in ret the chips of the chain when
\* AUTO_ADDRESS echoed and every READ_ID carried its id, -1 otherwise
DetectSingleChain ==
    /\ last.event = "boot"
    /\ \E d \in DetectAnswers :
       \E r \in BringUp({chain_detect(btc08, d[1], d[2], d[3])}) :
          /\ btc08' = r.b
          /\ last' = Step("none", {}, IF r.ok THEN "detect_ok" ELSE "detect_failed",
                          IF d[1] /\ d[3] = d[2] THEN d[2] ELSE 0 - 1)
    /\ UNCHANGED <<deven, lock, pc, sw, fl, nextWork, released, aborted, hist>>

\* add_cgpu at line 2321 was reached
Registered == last.event \notin {"boot", "detect_failed"}

NextDetect == DetectSingleChain \/ (Registered /\ Next)

SpecDetect == InitDetect /\ [][NextDetect]_vars

(* ---------------- specification of the chain bring-up ---------------- *)
\* The common body of init_btc08_chain (lines 2207-2260) and
\* reinit_btc08_chip for given answers of the chips: d is the chain record
\* chain_detect left, feature what read_feature reads, locks[i] whether
\* chip i locks its PLL, bists[i] the final READ_BIST answer of chip i.
bring_up(d, feature, locks, bists, nonce_ok, q) ==
    IF d.num_chips = 0
    THEN [b |-> ReinitFailure(d), ok |-> FALSE, fault |-> FALSE]
    ELSE LET c == AllocChips(d, feature)
             p == set_pll_config(c, locks)
             r == RunBist(p.b, bists)
         IN IF ~EnoughChips(c)
            THEN [b |-> ReinitFailure(c), ok |-> FALSE, fault |-> FALSE]
            ELSE IF ~p.ok
            THEN [b |-> ReinitFailure(p.b), ok |-> FALSE, fault |-> FALSE]
            ELSE [b |-> calc_nonce_range(r, nonce_ok, q), ok |-> TRUE,
                  fault |-> NonceDivByZero(r)]

InitBringUp ==
    /\ btc08 = ZeroChain
    /\ deven = DEV_ENABLED
    /\ lock = "none"
    /\ pc = [t \in Threads |-> "idle"]
    /\ sw = InitSw
    /\ fl = [ok |-> TRUE]
    /\ nextWork = 1
    /\ released = [w \in Works |-> 0]
    /\ aborted = FALSE
    /\ hist = InitHist
    /\ last = [NoStep EXCEPT !.event = "boot"]

\* init_btc08_chain on a chain of n chips that chain_detect found
InitChainStep ==
    /\ last.event = "boot"
    /\ \E n \in 1..MaxNonceChips,
          feature \in {FEATURE_FOR_FPGA, FEATURE_FOR_ASIC},
          nonce_ok \in BOOLEAN, q \in DivZeroAnswers :
       \E locks \in [1..n -> BOOLEAN], bists \in [1..n -> BistAnswers] :
          LET r == bring_up(chain_detect(btc08, TRUE, n, n), feature, locks,
                            bists, nonce_ok, q)
          IN /\ (q # 0 => r.fault)
             /\ btc08' = r.b
             /\ last' = [Step("none", {}, "init_chain", IF r.ok THEN 1 ELSE 0)
                            EXCEPT !.info = [n |-> n, feature |-> feature,
                                             locks |-> locks, bists |-> bists,
                                             fault |-> r.fault]]
    /\ UNCHANGED <<deven, lock, pc, sw, fl, nextWork, released, aborted, hist>>

NextBringUp == InitChainStep

SpecBringUp == InitBringUp /\ [][NextBringUp]_vars

(* ---------------- specification of the PLL selection ---------------- *)
\* get_pll_idx applied to every request 0..MaxPllFreq
InitPll ==
    /\ hist \in [pll_freq : 0..MaxPllFreq]
    /\ btc08 = ZeroChain
    /\ deven = DEV_ENABLED
    /\ lock = "none"
    /\ pc = [t \in Threads |-> "idle"]
    /\ sw = InitSw
    /\ fl = [ok |-> TRUE]
    /\ nextWork = 1
    /\ released = [w \in Works |-> 0]
    /\ aborted = FALSE
    /\ last = [NoStep EXCEPT !.event = "boot"]

PllStep ==
    /\ last.event = "boot"
    /\ last' = Step("none", {}, "get_pll_idx", get_pll_idx(hist.pll_freq))
    /\ UNCHANGED <<btc08, deven, lock, pc, sw, fl, nextWork, released, aborted,
                   hist>>

NextPll == PllStep

SpecPll == InitPll /\ [][NextPll]_vars

(* ---------------- specification of the SPI transfers ---------------- *)
\* answers of ioctl(SPI_IOC_MESSAGE(1)): an error, nothing, the length sent
IoctlAnswers(len) == {-1, 0, len}

\* conversion of an int to the bool the functions return
ToBool(x) == IF x # 0 THEN 1 ELSE 0

\* spi_transfer: no check of the length, one ioctl
spi_transfer(len, ioctl_ret) ==
    [ret |-> ToBool(IF ioctl_ret > 0 THEN 1 ELSE 0), ioctls |-> 1]

\* spi_transfer_x20: a length that is not a multiple of 4 returns -1 as bool
spi_transfer_x20(len, ioctl_ret) ==
    IF len % 4 # 0
    THEN [ret |-> ToBool(-1), ioctls |-> 0]
    ELSE [ret |-> ToBool(IF ioctl_ret > 0 THEN 1 ELSE 0), ioctls |-> 1]

InitSpi ==
    /\ hist \in [len : 0..MaxSpiLen]
    /\ btc08 = ZeroChain
    /\ deven = DEV_ENABLED
    /\ lock = "none"
    /\ pc = [t \in Threads |-> "idle"]
    /\ sw = InitSw
    /\ fl = [ok |-> TRUE]
    /\ nextWork = 1
    /\ released = [w \in Works |-> 0]
    /\ aborted = FALSE
    /\ last = [NoStep EXCEPT !.event = "boot"]

SpiTransfer ==
    /\ last.event = "boot"
    /\ \E ioctl_ret \in IoctlAnswers(hist.len) :
         LET r == spi_transfer(hist.len, ioctl_ret)
         IN  last' = [Step("none", {}, "spi_transfer", r.ret)
                         EXCEPT !.info = [ioctls |-> r.ioctls,
                                          ioctl_ret |-> ioctl_ret]]
    /\ UNCHANGED <<btc08, deven, lock, pc, sw, fl, nextWork, released, aborted,
                   hist>>

SpiTransferX20 ==
    /\ last.event = "boot"
    /\ \E ioctl_ret \in IoctlAnswers(hist.len) :
         LET r == spi_transfer_x20(hist.len, ioctl_ret)
         IN  last' = [Step("none", {}, "spi_transfer_x20", r.ret)
                         EXCEPT !.info = [ioctls |-> r.ioctls,
                                          ioctl_ret |-> ioctl_ret]]
    /\ UNCHANGED <<btc08, deven, lock, pc, sw, fl, nextWork, released, aborted,
                   hist>>

NextSpi == SpiTransfer \/ SpiTransferX20

SpecSpi == InitSpi /\ [][NextSpi]_vars

(* ---------------- specification of the target encoding ---------------- *)
\* index of the most significant byte of work->target
TopIndex == 31

TargetIndexes == 0..TopIndex

\* values of the three most significant non-zero bytes of a target
ByteValues == {0, 1, 127, 128, 255}

\* positions outside the target that nbits_from_target can read, and the
\* values such a read can produce
OutsideIndexes == {-2, -1, TopIndex + 1}

OutsideValues == {0, 255}

\* the targets: most significant non-zero byte at p, two more bytes below it
TargetOf(p, b0, b1, b2) ==
    [i \in TargetIndexes |->
        IF i = p THEN b0
        ELSE IF i = p - 1 THEN b1
        ELSE IF i = p - 2 THEN b2
        ELSE 0]

RECURSIVE TopNonZero(_, _)
\* while(target[ii--]==0); ii++;
TopNonZero(target, ii) ==
    IF target[ii] # 0 THEN ii ELSE TopNonZero(target, ii - 1)

\* target[i], a read outside the array producing what memory holds there
ReadByte(target, outside, i) ==
    IF i \in TargetIndexes THEN target[i] ELSE outside[i]

nbits_from_target(target, outside) ==
    LET top == TopNonZero(target, TopIndex)
        ii == IF ReadByte(target, outside, top - 2) = 0 THEN top + 1 ELSE top
    IN  [ret |-> (ii + 1) * (2 ^ 24)
                 + ReadByte(target, outside, ii) * (2 ^ 16)
                 + ReadByte(target, outside, ii - 1) * (2 ^ 8)
                 + ReadByte(target, outside, ii - 2),
         reads |-> (top..TopIndex) \cup {top - 2, ii, ii - 1, ii - 2}]

\* the compact encoding of Bitcoin: the number of significant bytes and the
\* three most significant of them, one byte more when the first is >= 0x80
CompactOf(target) ==
    LET top == TopNonZero(target, TopIndex)
        byte(i) == IF i \in TargetIndexes THEN target[i] ELSE 0
        mantissa == byte(top) * (2 ^ 16) + byte(top - 1) * (2 ^ 8) + byte(top - 2)
    IN  IF byte(top) >= 128
        THEN (top + 2) * (2 ^ 24) + (mantissa \div (2 ^ 8))
        ELSE (top + 1) * (2 ^ 24) + mantissa

InitTarget ==
    /\ \E p \in TargetIndexes, b0 \in ByteValues \ {0}, b1, b2 \in ByteValues :
         hist = [target |-> TargetOf(p, b0, b1, b2)]
    /\ btc08 = ZeroChain
    /\ deven = DEV_ENABLED
    /\ lock = "none"
    /\ pc = [t \in Threads |-> "idle"]
    /\ sw = InitSw
    /\ fl = [ok |-> TRUE]
    /\ nextWork = 1
    /\ released = [w \in Works |-> 0]
    /\ aborted = FALSE
    /\ last = [NoStep EXCEPT !.event = "boot"]

NbitsStep ==
    /\ last.event = "boot"
    /\ \E outside \in [OutsideIndexes -> OutsideValues] :
         LET r == nbits_from_target(hist.target, outside)
         IN  last' = [Step("none", {}, "nbits_from_target", r.ret)
                         EXCEPT !.info = [reads |-> r.reads]]
    /\ UNCHANGED <<btc08, deven, lock, pc, sw, fl, nextWork, released, aborted,
                   hist>>

NextTarget == NbitsStep

SpecTarget == InitTarget /\ [][NextTarget]_vars

(* ---------------- specification of the job write ---------------- *)
\* set_work called with one work after the other on an initialised chain;
\* hist.chip_target is the share difficulty whose target the chips hold
\* (GoldenTarget after a BIST), last.info what the call was given and sent
GoldenTarget == 0

InitJob ==
    /\ \E r \in ChainBringUp(ZeroChain) : r.ok /\ btc08 = r.b
    /\ deven = DEV_ENABLED
    /\ lock = "none"
    /\ pc = [t \in Threads |-> "idle"]
    /\ sw = InitSw
    /\ fl = [ok |-> TRUE]
    /\ nextWork = 1
    /\ released = [w \in Works |-> 0]
    /\ aborted = FALSE
    /\ hist = [chip_target |-> GoldenTarget]
    /\ last = [NoStep EXCEPT !.event = "boot"]

\* the target the chips hold after a batch: a WRITE_TARGET that was
\* transferred replaces it
TargetAfter(chip_target, batch, sent) ==
    IF sent /\ \E k \in 1..Len(batch) : batch[k].cmd = "WRITE_TARGET"
    THEN batch[CHOOSE k \in 1..Len(batch) : batch[k].cmd = "WRITE_TARGET"].sdiff
    ELSE chip_target

\* set_work, called by scanwork, which the miner runs on an enabled device
JobSetWork ==
    /\ ~aborted /\ nextWork <= MaxWorks /\ deven = DEV_ENABLED
    /\ \E ok \in BOOLEAN :
         LET r == set_work(btc08, nextWork, ok)
             held == TargetAfter(hist.chip_target, r.batch, ok)
         IN /\ btc08' = r.b
            /\ released' = Complete(released, r.completed)
            /\ aborted' = r.aborted
            /\ hist' = [hist EXCEPT !.chip_target = held]
            /\ last' = [Step("none", SetWorkFields, "set_work", r.job_id)
                           EXCEPT !.info = [work |-> nextWork,
                                            sdiff |-> btc08.sdiff,
                                            last_queued_id |-> btc08.last_queued_id,
                                            batch |-> r.batch, sent |-> ok,
                                            chip_target |-> held]]
    /\ nextWork' = nextWork + 1
    /\ UNCHANGED <<deven, lock, pc, sw, fl>>

\* what the chips hold after a hardware reset that no BIST followed
NoTarget == 0 - 1

\* btc08_flush_work, lines 2751-2785: the hardware reset, the slots and the
\* queue released, the cached sdiff cleared, then reinit_btc08_chip, whose
\* BIST (line 2162) loads the golden target
JobFlush ==
    /\ ~aborted
    /\ \E r \in reinit_btc08_chip(FlushChain(btc08)) :
         /\ btc08' = r.b
         /\ deven' = IF r.ok THEN deven ELSE DEV_DISABLED
         /\ hist' = [hist EXCEPT !.chip_target =
                         IF r.ok THEN GoldenTarget ELSE NoTarget]
         /\ last' = [Step("none", FlushFields \cup ReinitFields, "flush",
                          IF r.ok THEN 1 ELSE 0)
                        EXCEPT !.info = [sdiff |-> btc08.sdiff]]
         /\ \/ aborted' = aborted
            \/ (r.fault \/ btc08.chips_ptr = "dangling") /\ aborted' = TRUE
    /\ released' = Complete(released, SlotWorks(btc08, 0) \o btc08.active_wq)
    /\ UNCHANGED <<lock, pc, sw, fl, nextWork>>

\* reinit_chain, lines 1438-1518, with the same PLL lock and BIST answer
\* from every chip: after the PLL loop cmd_RESET_BCAST (line 1485) and
\* cmd_BIST_BCAST (line 1491), which loads the golden target; btc08->sdiff
\* is not assigned
JobReinitChain ==
    /\ ~aborted /\ deven = DEV_ENABLED
    /\ \E lock_ok \in BOOLEAN, bist \in BistAnswers, nonce_ok \in BOOLEAN,
          q \in DivZeroAnswers :
          LET r == reinit_chain(btc08, [c \in 1..btc08.num_chips |-> lock_ok],
                                [c \in 1..btc08.num_chips |-> bist],
                                nonce_ok, q)
          IN /\ btc08' = r.b
             /\ hist' = [hist EXCEPT !.chip_target =
                             IF r.ok THEN GoldenTarget ELSE @]
             /\ last' = [Step("none", ReinitFields, "reinit_chain",
                              IF r.ok THEN 1 ELSE 0)
                            EXCEPT !.info = [sdiff |-> btc08.sdiff]]
    /\ UNCHANGED <<deven, lock, pc, sw, fl, nextWork, released, aborted>>

NextJob == JobSetWork \/ JobFlush \/ JobReinitChain

SpecJob == InitJob /\ [][NextJob]_vars

(* ---------------- specification of the PLL programming ---------------- *)
\* set_pll_config_by_idx, one step per command; hist.sent lists the commands
\* issued so far, hist.pos is the statement reached.  The results of the
\* commands are ignored by the function: each leaves btc08->disabled
PllCmd(cmd, value) == [cmd |-> cmd, value |-> value]

InitPllSeq ==
    /\ \E chipId \in 0..MaxChipNum, pll_idx \in 0..(NUM_PLL_SET - 1) :
         hist = [chipId |-> chipId, pll_idx |-> pll_idx, pos |-> 1, sent |-> <<>>]
    /\ btc08 = ZeroChain
    /\ deven = DEV_ENABLED
    /\ lock = "none"
    /\ pc = [t \in Threads |-> "idle"]
    /\ sw = InitSw
    /\ fl = [ok |-> TRUE]
    /\ nextWork = 1
    /\ released = [w \in Works |-> 0]
    /\ aborted = FALSE
    /\ last = [NoStep EXCEPT !.event = "boot"]

\* one cmd_SET_PLL_* call at statement pos: ok is the result of its transfer
PllCommand(pos, cmd) ==
    /\ hist.pos = pos
    /\ \E ok \in BOOLEAN :
         /\ btc08' = [btc08 EXCEPT !.disabled = ~ok]
         /\ last' = Step("none", {"disabled"}, cmd.cmd, IF ok THEN 1 ELSE 0)
    /\ hist' = [hist EXCEPT !.pos = pos + 1, !.sent = Append(@, cmd)]
    /\ UNCHANGED <<deven, lock, pc, sw, fl, nextWork, released, aborted>>

\* line 1013
PllFoutDisable == PllCommand(1, PllCmd("SET_PLL_FOUT_EN", "FOUT_EN_DISABLE"))
\* line 1016
PllConfig == PllCommand(2, PllCmd("SET_PLL_CONFIG", hist.pll_idx))
\* line 1019
PllResetDown == PllCommand(3, PllCmd("SET_PLL_RESETB", "RESETB_RESET"))
\* line 1022
PllResetUp == PllCommand(4, PllCmd("SET_PLL_RESETB", "RESETB_ON"))
\* line 1025: cgsleep_ms(1)
PllSleep ==
    /\ hist.pos = 5
    /\ hist' = [hist EXCEPT !.pos = 6, !.sent = Append(@, PllCmd("sleep_ms", 1))]
    /\ last' = Step("none", {}, "sleep_ms", 0)
    /\ UNCHANGED <<btc08, deven, lock, pc, sw, fl, nextWork, released, aborted>>
\* line 1028
PllFoutEnable == PllCommand(6, PllCmd("SET_PLL_FOUT_EN", "FOUT_EN_ENABLE"))

NextPllSeq ==
    \/ PllFoutDisable \/ PllConfig \/ PllResetDown \/ PllResetUp \/ PllSleep
    \/ PllFoutEnable

SpecPllSeq == InitPllSeq /\ [][NextPllSeq]_vars

(* ---------------- the poll loop of scanwork ---------------- *)
\* btc08_scanwork fed by btc08_queue_full, with up to MaxTickPenalty
\* rejected nonces in a tick
DeepMicroJobAnswers == {0, 1, 6}

ScanGNDeep == ScanGNStep(DeepMicroJobAnswers, MaxTickPenalty)

NextScan ==
    \/ ScanCheckCores \/ ScanCheckDisabled \/ ScanLock \/ ScanStart
    \/ ScanFill \/ ScanFailure \/ ScanPollGN \/ ScanGNDeep \/ ScanPollOON
    \/ ScanRefill \/ ScanUnlock
    \/ QueueLock \/ QueueBody

SpecScan == Init /\ [][NextScan]_vars

\* the steps of the scanwork thread and of the queue_full thread
ScanThread ==
    \/ ScanCheckCores \/ ScanCheckDisabled \/ ScanLock \/ ScanStart
    \/ ScanFill \/ ScanFailure \/ ScanPollGN \/ ScanGNDeep \/ ScanPollOON
    \/ ScanRefill \/ ScanUnlock

QueueThread == QueueLock \/ QueueBody

\* both threads are scheduled again and again (sched_yield at line 2692
\* gives the processor away, it does not block); what the GPIO lines and
\* the chips answer is not constrained
SpecScanFair ==
    Init /\ [][NextScan]_vars /\ WF_vars(ScanThread) /\ WF_vars(QueueThread)

(* ---------------- the poll loop of scanwork against the clock ---------------- *)
\* The poll loop of btc08_scanwork with the time that passes while it
\* waits: hist.elapsed is the time in ms since the loop was entered with
\* jobs running.  The GN pass (ScanGNStep) reads neither the clock nor the
\* OON line and is left out.
timeout_oon(feature) ==
    IF feature = FEATURE_FOR_FPGA THEN TIME_LIMIT_OF_OON_FPGA
    ELSE TIME_LIMIT_OF_OON

\* the chain after a successful initial fill, inside the poll loop
InitWatchdog ==
    /\ \E feature \in {FEATURE_FOR_FPGA, FEATURE_FOR_ASIC} :
          btc08 = [timeout_oon |-> timeout_oon(feature),
                   is_processing_job |-> TRUE, disabled |-> FALSE]
    /\ hist = [elapsed |-> 0]
    /\ deven = DEV_ENABLED
    /\ lock = "scan"
    /\ pc = [t \in Threads |-> IF t = "scan" THEN "sw_poll" ELSE "idle"]
    /\ sw = InitSw
    /\ fl = [ok |-> TRUE]
    /\ nextWork = 1
    /\ released = [w \in Works |-> 0]
    /\ aborted = FALSE
    /\ last = [NoStep EXCEPT !.event = "scan_start"]

\* line 2592: the GN line is read; whatever it reads, the loop goes on
\* to the OON line
TimedPollGN ==
    /\ pc["scan"] = "sw_poll"
    /\ \E gn \in GpioAnswers : last' = Step("scan", {}, "poll_gn", gn)
    /\ pc' = [pc EXCEPT !["scan"] = "sw_oon"]
    /\ UNCHANGED <<btc08, deven, lock, sw, fl, nextWork, released, aborted, hist>>

\* lines 2665-2692: the OON line is read; 0 enters the OON branch, any
\* other value goes to sched_yield and round the loop, YieldMs later
TimedPollOON ==
    /\ pc["scan"] = "sw_oon"
    /\ \E oon \in GpioAnswers :
          IF oon = 0
          THEN /\ pc' = [pc EXCEPT !["scan"] = "sw_refill"]
               /\ last' = Step("scan", {"disabled"}, "CLEAR_OON", oon)
               /\ hist' = hist
          ELSE /\ hist.elapsed < MaxElapsedMs
               /\ pc' = [pc EXCEPT !["scan"] = "sw_poll"]
               /\ last' = Step("scan", {}, "poll_oon", oon)
               /\ hist' = [hist EXCEPT !.elapsed = @ + YieldMs]
    /\ UNCHANGED <<btc08, deven, lock, sw, fl, nextWork, released, aborted>>

NextWatchdog == TimedPollGN \/ TimedPollOON

SpecWatchdog == InitWatchdog /\ [][NextWatchdog]_vars

(* ---------------- properties ---------------- *)
\* C1: every in-flight slot is empty or holds one work, no work is held in
\* two slots, and the work that the last set_work found in its slot has
\* been handed to work_completed and is no longer in any slot.
C1_SlotsExclusive ==
    /\ \A s \in Slots : btc08.work[s] \in Works \cup {NULL}
    /\ \A s1, s2 \in Slots :
          (s1 # s2 /\ btc08.work[s1] # NULL) => btc08.work[s1] # btc08.work[s2]
    /\ hist.evicted # NULL =>
          /\ released[hist.evicted] >= 1
          /\ hist.evicted \notin InSlots(btc08)

\* C1 witness: a set_work reused an occupied slot
C1_Witness ==
    /\ hist.evicted # NULL /\ released[hist.evicted] = 1
    /\ hist.runWork \in InSlots(btc08)
    /\ last.event = "set_work"

\* C2: the n-th successful set_work since initialisation or the last flush
\* issued RUN_JOB with job-id ((n-1) mod 8) + 1 and installed the work in
\* slot job-id - 1; last_queued_id is always in 0..7.
C2_JobIdSequence ==
    /\ btc08.last_queued_id \in 0..JOB_ID_NUM_MASK
    /\ btc08.last_queued_id = hist.nset % (JOB_ID_NUM_MASK + 1)
    /\ hist.nset > 0 =>
          /\ hist.runJobId = ((hist.nset - 1) % (JOB_ID_NUM_MASK + 1)) + 1
          /\ hist.runSlot = hist.runJobId - 1
          /\ (last.event = "set_work" /\ ~aborted) =>
                btc08.work[hist.runSlot] = hist.runWork

\* C2 witness: the ninth set_work wrapped around to job-id 1
C2_Witness ==
    /\ hist.nset = JOB_ID_NUM_MASK + 2 /\ hist.runJobId = 1
    /\ btc08.last_queued_id = 1

\* C3: after a failed batched job write the new work has been handed to
\* work_completed, the chain is marked disabled, the work is in no slot and
\* last_queued_id is what it was before the call.
C3_BatchFailureHandled ==
    hist.failWork # NULL =>
        /\ released[hist.failWork] >= 1
        /\ btc08.disabled
        /\ hist.failWork \notin InSlots(btc08)
        /\ btc08.last_queued_id = hist.failLq

\* C4: once the chain is marked disabled no step clears the mark.
C4_DisabledTerminal == [][btc08.disabled => btc08'.disabled]_vars

\* C5: an SPI failure during a scan leaves the chain disabled with the
\* driver running, so that the next scanwork call declines with -1.
C5_ScanFailureDisables ==
    hist.spiFail = "scan" => (btc08.disabled /\ ~aborted)

\* C6: no failed SPI transfer terminates the process.
C6_NoAbortOnSpiFailure == ~(hist.spiFail # "none" /\ aborted)

\* C7: when flush_work returns, the slots and the pending queue are empty,
\* sdiff = 0, is_processing_job is false, last_queued_id = 0, and every work
\* that was in a slot or in the queue when it started has been handed to
\* work_completed.
C7_FlushPostcondition ==
    last.event = "flush_return" =>
        /\ \A s \in Slots : btc08.work[s] = NULL
        /\ btc08.active_wq = <<>>
        /\ btc08.sdiff = 0
        /\ ~btc08.is_processing_job
        /\ btc08.last_queued_id = 0
        /\ \A w \in last.works : released[w] >= 1

\* C7 witness: flush_work returned after releasing a full slot table and a
\* non-empty queue
C7_Witness ==
    /\ last.event = "flush_return"
    /\ Cardinality(last.works) > JOB_ID_NUM_MASK + 1
    /\ \A w \in last.works : released[w] = 1

\* C8: when flush_work returns after a failed re-initialisation the chain is
\* marked disabled and the device is DEV_DISABLED.
C8_ReinitFailureDisables ==
    (last.event = "flush_return" /\ last.ret = 0) =>
        (btc08.disabled /\ deven = DEV_DISABLED)

\* C9: every step that reads or writes the in-flight work table is taken by
\* a thread that holds the chain mutex.
C9_WorkTableUnderMutex == "work" \in last.fields => last.owner = last.t

\* C9 witness: the GN branch read an occupied slot while the scanwork
\* thread held the mutex
C9_Witness ==
    /\ last.event = "gn_result" /\ last.ret >= 1 /\ last.owner = "scan"
    /\ btc08.work[last.ret - 1] # NULL

\* C10: the scanwork thread never reads a chain field while another thread
\* is inside the critical section of flush_work.
C10_NoReadDuringFlush ==
    ~(last.t = "scan" /\ last.fields # {} /\ last.owner = "flush")

C12_QueueRefinesFifo ==
    /\ btc08.active_wq.list = hist.fifo
    /\ btc08.active_wq.num_elems = Len(btc08.active_wq.list)
    /\ last.event \in {"wq_enqueue", "wq_dequeue"} => last.ret = hist.expect

\* C12 witness: a dequeue returned the oldest of several queued works
C12_Witness ==
    /\ last.event = "wq_dequeue" /\ last.ret # NULL
    /\ btc08.active_wq.num_elems = MaxListLen - 1
    /\ \A i \in 1..Len(hist.fifo) : hist.fifo[i] # last.ret

\* number of nonces in the ranges of chips i..num_chips
RECURSIVE RangeSum(_, _)
RangeSum(b, i) ==
    IF i > b.num_chips THEN 0
    ELSE b.chips[i].end_nonce - b.chips[i].start_nonce + 1 + RangeSum(b, i + 1)

\* C13: after the partition of a chain with perf > 0 the first chip starts
\* at 0, the last chip ends at MAX_NONCE_SIZE, every chip has start_nonce <=
\* end_nonce, and each chip starts one past the end of its predecessor.
C13_RangesContiguous ==
    (last.event = "calc_nonce_range" /\ ~aborted /\ btc08.perf > 0) =>
        /\ btc08.chips[1].start_nonce = 0
        /\ btc08.chips[btc08.num_chips].end_nonce = MAX_NONCE_SIZE
        /\ \A i \in 1..btc08.num_chips :
              btc08.chips[i].start_nonce <= btc08.chips[i].end_nonce
        /\ \A i \in 1..(btc08.num_chips - 1) :
              btc08.chips[i].end_nonce + 1 = btc08.chips[i + 1].start_nonce

\* C14: after the partition of a chain with perf > 0 the ranges are
\* pairwise disjoint and together hold MAX_NONCE_SIZE + 1 nonces.
C14_RangesCoverExactly ==
    (last.event = "calc_nonce_range" /\ ~aborted /\ btc08.perf > 0) =>
        /\ RangeSum(btc08, 1) = MAX_NONCE_SIZE + 1
        /\ \A i, j \in 1..btc08.num_chips :
              i < j => btc08.chips[i].end_nonce < btc08.chips[j].start_nonce

\* sum of chip.perf over chips i..Len(chips)
RECURSIVE PerfSum(_, _)
PerfSum(chips, i) ==
    IF i > Len(chips) THEN 0 ELSE chips[i].perf + PerfSum(chips, i + 1)

\* sum of chip.num_cores over chips i..Len(chips)
RECURSIVE CoreSum(_, _)
CoreSum(chips, i) ==
    IF i > Len(chips) THEN 0 ELSE chips[i].num_cores + CoreSum(chips, i + 1)

\* C15: after a completed initialisation or re-initialisation chain.perf is
\* the sum of chip.perf over the chips of the chain, and every chip.perf is
\* the chip's num_cores times its MHz.
C15_PerfIsSumOfChips ==
    (~aborted /\ \/ last.event = "init"
                 \/ last.event \in {"flush_return", "reinit_chain"} /\ last.ret = 1) =>
        /\ btc08.perf = PerfSum(btc08.chips, 1)
        /\ \A i \in 1..Len(btc08.chips) :
              btc08.chips[i].perf = btc08.chips[i].num_cores * btc08.chips[i].mhz

\* C16: when AUTO_ADDRESS does not echo or a READ_ID carries a wrong id,
\* num_chips and num_active_chips are 0, the initialisation fails and the
\* driver takes no step for that chain; when the initialisation succeeds,
\* num_chips = num_active_chips = N > 0.
C16_DetectionFailureStopsChain ==
    /\ [](last.event \in {"detect_ok", "detect_failed"} =>
            /\ last.ret < 0 =>
                  /\ last.event = "detect_failed"
                  /\ btc08.num_chips = 0 /\ btc08.num_active_chips = 0
            /\ last.event = "detect_ok" =>
                  /\ last.ret > 0
                  /\ btc08.num_chips = last.ret
                  /\ btc08.num_active_chips = last.ret)
    /\ [][last.event # "detect_failed"]_vars

\* C16 witness: the initialisation failed on a detection failure
C16_Witness ==
    /\ last.event = "detect_failed" /\ last.ret < 0
    /\ btc08.num_chips = 0 /\ hist.nset = 0

\* C17: a GN result whose job id names an empty slot adds exactly one to
\* the stales of the reporting chip, hands nothing to submit_nonce, and
\* leaves hw_errors, nonces_found and nonce_ranges_processed as they were.
C17_StaleResultCounted ==
    (last.event = "gn_result" /\ btc08.work[last.ret - 1] = NULL) =>
        /\ last.info.counts.stales = 1
        /\ last.info.counts.submits = <<>>
        /\ last.info.counts.hw_errors = 0
        /\ last.info.counts.nonces_found = 0
        /\ last.info.counts.nrp = 0

\* C17 witness: a chip reported a result for a slot that is empty while
\* other slots hold works
C17_Witness ==
    /\ last.event = "gn_result" /\ btc08.work[last.ret - 1] = NULL
    /\ last.info.chip >= 1 /\ last.info.counts.stales = 1
    /\ \E s \in Slots : btc08.work[s] # NULL

\* C18: for a GN result whose slot holds a work, submit_nonce is called
\* once for every set bit i of the micro-job bitmap, in ascending order of
\* i; every accepted nonce adds one to nonces_found, every rejected one
\* adds one to hw_errors and takes one from nonce_ranges_processed; the
\* polling path of scanwork returns max(0, nonce_ranges_processed) times
\* the nonce range times ASIC_BOOST_CORE_NUM, never a negative value.
C18_NoncesSubmittedAndCounted ==
    /\ (last.event = "gn_result" /\ btc08.work[last.ret - 1] # NULL) =>
          LET c == last.info.counts
              bits == {i \in 0..(ASIC_BOOST_CORE_NUM - 1) :
                          (last.info.micro_job_id \div (2 ^ i)) % 2 = 1}
          IN /\ Len(c.submits) = Cardinality(bits)
             /\ {c.submits[j] : j \in 1..Len(c.submits)} = bits
             /\ \A j \in 1..(Len(c.submits) - 1) : c.submits[j] < c.submits[j + 1]
             /\ c.nonces_found = Cardinality(bits \cap last.info.accept)
             /\ c.hw_errors = Cardinality(bits \ last.info.accept)
             /\ c.nrp = 0 - c.hw_errors
             /\ c.stales = 0
    /\ last.event = "scan_result" =>
          /\ last.ret >= 0
          /\ last.ret = (IF last.info.nrp > 0 THEN last.info.nrp ELSE 0)
                            * (MAX_NONCE_SIZE + 1) * ASIC_BOOST_CORE_NUM

\* C18 witness: a result with two set bits, one nonce accepted and one
\* rejected
C18_Witness ==
    /\ last.event = "gn_result" /\ btc08.work[last.ret - 1] # NULL
    /\ last.info.counts.nonces_found = 1
    /\ last.info.counts.hw_errors = 1
    /\ Len(last.info.counts.submits) = 2

\* C19: a GN pass sends READ_JOB_ID to every chip 1..num_active_chips
\* exactly once, in ascending order: the pass starts at chip 1, every
\* chip it handles is followed by the next one, whatever the chip
\* reported, and it ends after chip num_active_chips.
C19_EveryChipPolled ==
    [][/\ (pc["scan"] = "sw_poll" /\ pc'["scan"] = "sw_gn") => sw'.chip = 1
       /\ (pc["scan"] = "sw_gn" /\ ~aborted') =>
             IF sw.chip <= btc08.num_active_chips
             THEN pc'["scan"] = "sw_gn" /\ sw'.chip = sw.chip + 1
             ELSE pc'["scan"] = "sw_oon" /\ sw.chip = btc08.num_active_chips + 1]_vars

\* C20: when OON is asserted the tick adds 2 to nonce_ranges_processed,
\* schedules the first min(2, queue length) works of the queue in queue
\* order, which advances last_queued_id by that number modulo 8 and puts
\* those works into the slots, and then leaves the poll loop without
\* polling GN or OON again.
C20_OonRefill ==
    /\ [](last.event = "scan_result" =>
            LET o == last.info.oon
                k == IF Len(o.queue) < 2 THEN Len(o.queue) ELSE 2
            IN /\ last.info.nrp = o.nrp + 2
               /\ btc08.last_queued_id = (o.lq + k) % (JOB_ID_NUM_MASK + 1)
               /\ \A j \in 1..k :
                     btc08.work[(o.lq + j - 1) % (JOB_ID_NUM_MASK + 1)] = o.queue[j]
               /\ btc08.active_wq = SubSeq(o.queue, k + 1, Len(o.queue)))
    /\ [][pc["scan"] = "sw_refill" =>
            pc'["scan"] \in {"sw_refill", "sw_unlock"}]_vars

\* C20 witness: the tick returned after an OON that found two works
\* queued and scheduled them across the wrap of the job id
C20_Witness ==
    /\ last.event = "scan_result"
    /\ Len(last.info.oon.queue) >= 2
    /\ last.info.oon.lq = JOB_ID_NUM_MASK
    /\ btc08.last_queued_id = 1

\* C21: the OON refill is entered only by the step that sends CLEAR_OON
\* after the OON line was read asserted, and every set_work of the refill
\* follows that CLEAR_OON directly or follows an earlier set_work of the
\* same refill.
C21_ClearOonBeforeRefill ==
    [][/\ (pc["scan"] # "sw_refill" /\ pc'["scan"] = "sw_refill") =>
             (pc["scan"] = "sw_oon" /\ last'.event = "CLEAR_OON")
       /\ (pc["scan"] = "sw_refill" /\ last'.event = "set_work") =>
             \/ last.event = "CLEAR_OON" /\ sw.i = 0
             \/ last.event = "set_work" /\ sw.i >= 1]_vars

\* C21 witness: the second set_work of a refill has been made
C21_Witness ==
    /\ pc["scan"] = "sw_unlock" /\ last.event = "set_work"
    /\ Len(sw.oon.queue) >= OON_REFILL /\ sw.nrp >= OON_REFILL

\* C22: every scanwork invocation that is not ended by a failed assert
\* returns, which releases the chain mutex.
C22_ScanworkReturns ==
    (pc["scan"] # "idle") ~> (pc["scan"] = "idle" \/ aborted)

\* C23: while jobs are running, scanwork does not go on waiting for OON
\* once the time since it began to wait exceeds timeout_oon by a full
\* round of the poll loop: the wait has been ended as failed.
C23_OonWatchdog ==
    (btc08.is_processing_job /\ hist.elapsed > btc08.timeout_oon + YieldMs) =>
        pc["scan"] \notin {"sw_poll", "sw_oon"}

\* C27: when get_gpio_value returns -1 for the GN or the OON line, the
\* chain is marked disabled and scanwork leaves the poll loop.
C27_GpioFailureDisables ==
    (last.event \in {"poll_gn", "poll_oon"} /\ last.ret = 0 - 1) =>
        (btc08.disabled /\ pc["scan"] \notin {"sw_poll", "sw_oon"})

\* C24: on an ASIC chain with enough chips of which at least one locks its
\* PLL, the initialisation succeeds, and every chip that does not lock has
\* mhz = 0 and perf = 0.
C24_PllFailureExcludesChip ==
    (/\ last.event = "init_chain"
     /\ last.info.feature = FEATURE_FOR_ASIC
     /\ last.info.n >= min_chips
     /\ ~last.info.fault
     /\ \E i \in 1..last.info.n : last.info.locks[i]) =>
        /\ last.ret = 1
        /\ \A i \in 1..last.info.n :
              ~last.info.locks[i] =>
                 (btc08.chips[i].mhz = 0 /\ btc08.chips[i].perf = 0)

C26_PllSelection ==
    last.event = "get_pll_idx" =>
        IF hist.pll_freq > pll_sets[NUM_PLL_SET]
        THEN last.ret = NUM_PLL_SET - 1
        ELSE /\ last.ret \in 0..(NUM_PLL_SET - 1)
             /\ pll_sets[last.ret + 1] >= hist.pll_freq
             /\ \A j \in 1..last.ret : pll_sets[j] < hist.pll_freq

\* C28: an SPI transfer whose length is not a multiple of 4 fails: spi_transfer
\* and spi_transfer_x20 both return false and perform no ioctl
C28_UnalignedTransferFails ==
    (last.event \in {"spi_transfer", "spi_transfer_x20"} /\ hist.len % 4 # 0)
        => (last.ret = 0 /\ last.info.ioctls = 0)

\* C29: for every non-zero target nbits_from_target returns the compact
\* encoding of Bitcoin and reads only bytes inside the 32-byte target
C29_CompactEncoding ==
    last.event = "nbits_from_target" =>
        /\ last.ret = CompactOf(hist.target)
        /\ last.info.reads \subseteq TargetIndexes

\* C30: whenever btc08_scanwork is in its poll loop, at least MAX_JOB_FIFO
\* set_work calls have succeeded since the chain was initialised, also when
\* an earlier btc08_scanwork ended with an underflow after scheduling fewer
\* (no flush and no re-init happens under SpecScan, so hist.nset counts the
\* successful set_work calls since the init)
C30_PollLoopAfterFullFill ==
    pc["scan"] \in {"sw_poll", "sw_gn", "sw_oon"} => hist.nset >= MAX_JOB_FIFO

\* C31: the batch sent by set_work is WRITE_PARM, then WRITE_TARGET if and
\* only if the work's sdiff differs from the chain's sdiff, then RUN_JOB, all
\* broadcast; RUN_JOB carries the AsicBoost bit iff the work's pool has a
\* vmask, and the job id last_queued_id + 1; afterwards chain.sdiff is the
\* work's sdiff
C31_JobBatch ==
    last.event = "set_work" =>
        LET i == last.info
            batch == i.batch
            run == batch[Len(batch)]
        IN /\ Len(batch) = (IF WorkSdiff(i.work) # i.sdiff THEN 3 ELSE 2)
           /\ batch[1].cmd = "WRITE_PARM"
           /\ Len(batch) = 3 =>
                 (batch[2].cmd = "WRITE_TARGET" /\ batch[2].sdiff = WorkSdiff(i.work))
           /\ run.cmd = "RUN_JOB"
           /\ \A k \in 1..Len(batch) : batch[k].chip_id = BCAST_CHIP_ID
           /\ run.boost = WorkVmask(i.work)
           /\ run.job_id = i.last_queued_id + 1
           /\ btc08.sdiff = WorkSdiff(i.work)

\* a work with a vmask and a new sdiff was sent, and one with the chain's
\* sdiff
C31_Witness ==
    /\ last.event = "set_work" /\ ~aborted
    /\ Len(last.info.batch) = 2
    /\ last.info.last_queued_id > 0
    /\ WorkVmask(last.info.work)

\* C37: every RUN_JOB for a work with a non-zero sdiff finds the chips
\* holding the target of that sdiff: a WRITE_TARGET for it was transferred
\* since the last reset or BIST, also after a flush and a chain re-init
C37_TargetBeforeRunJob ==
    (last.event = "set_work" /\ ~aborted /\ WorkSdiff(last.info.work) # 0) =>
        last.info.chip_target = WorkSdiff(last.info.work)

\* lines 2617-2655: scanwork has read or written a counter of a chip record
ChipTableAccessed ==
    /\ last.event = "gn_result"
    /\ last.info.counts.stales + last.info.counts.hw_errors
          + last.info.counts.nonces_found > 0

\* line 2115 has freed the table the failure exit of an earlier call
\* (line 2180) had freed already
ChipTableFreedTwice ==
    last.event = "reinit" /\ last.info.chips_ptr = "dangling"

\* C38: over any sequence of flush_work calls, also ones whose re-init fails
\* after the chip table was allocated, the table is freed at most once per
\* allocation and is not accessed after the free by a later flush_work or
\* scanwork
C38_ChipTableLifetime ==
    /\ ~ChipTableFreedTwice
    /\ ChipTableAccessed => btc08.chips_ptr = "valid"

\* C39: calc_nonce_range never divides by a zero chain perf: on a chain of
\* two or more chips outside test mode chain.perf is positive when the
\* partition loop runs, also when every chip fails BIST during the
\* initialisation
C39_NoDivisionByZeroPerf ==
    last.event = "init_chain" => ~last.info.fault

\* C32: PLL programming issues disable FOUT, assert RESETB, SET_PLL_CONFIG,
\* deassert RESETB, wait 1 ms, enable FOUT in this order, and SET_PLL_CONFIG
\* is never sent before RESETB has been asserted
C32_PllSequence ==
    /\ \A k \in 1..Len(hist.sent) :
          hist.sent[k].cmd = "SET_PLL_CONFIG" =>
              \E j \in 1..(k - 1) :
                  hist.sent[j] = PllCmd("SET_PLL_RESETB", "RESETB_RESET")
    /\ hist.pos = 7 =>
          hist.sent = <<PllCmd("SET_PLL_FOUT_EN", "FOUT_EN_DISABLE"),
                        PllCmd("SET_PLL_RESETB", "RESETB_RESET"),
                        PllCmd("SET_PLL_CONFIG", hist.pll_idx),
                        PllCmd("SET_PLL_RESETB", "RESETB_ON"),
                        PllCmd("sleep_ms", 1),
                        PllCmd("SET_PLL_FOUT_EN", "FOUT_EN_ENABLE")>>

\* C33: in check_disabled_chips an ASIC chip reporting at least
\* OON_INT_MAXJOB jobs in flight is stepped down by 50 MHz when above the
\* table minimum and disabled as the new last chip only at the minimum; after
\* a step-down its MHz is still one the PLL table can program, so the
\* re-init that follows does not fail, and the chain is not disabled, because
\* of the step-down
C33_StepDownKeepsChain ==
    LET i == last.info
        asic == btc08.chips[btc08.num_chips].rev # FEATURE_FOR_FPGA
        stepped == {k \in DOMAIN i.ids : asic /\ i.ids[k] >= OON_INT_MAXJOB}
    IN /\ last.event = "check_disabled_chips" =>
            /\ \A k \in stepped :
                  /\ i.after[k] = i.before[k] - PLL_STEP_DOWN
                  /\ i.after[k] >= pll_sets[1]
            /\ ( /\ i.answers_ok /\ ~aborted
                 /\ \A k \in DOMAIN i.ids \ stepped : i.before[k] >= pll_sets[1] )
                  => (last.ret = 1 /\ ~btc08.disabled)
       /\ (last.event = "set_last_chip" /\ i.ids[i.new_last_chip] # READ_ID_FAILED)
            => i.before[i.new_last_chip] <= pll_sets[1]

\* number of places that hold work w: positions of the pending queue,
\* in-flight slots, and work_completed calls
QueuePlaces(w) ==
    Cardinality({k \in 1..Len(btc08.active_wq) : btc08.active_wq[k] = w})

SlotPlaces(w) == Cardinality({s \in Slots : btc08.work[s] = w})

\* C34: work conservation: while the driver runs, each work taken from the
\* host is in exactly one place - once in the pending queue, in one in-flight
\* slot, or released to the host once - and a work not yet taken is nowhere
C34_WorkConservation ==
    ~aborted =>
        \A w \in Works :
            QueuePlaces(w) + SlotPlaces(w) + released[w]
                = (IF w < nextWork THEN 1 ELSE 0)

\* every work the host can hand out has been taken: one was released by
\* the set_work that reused its slot, the others fill the slot table
C34_Witness ==
    /\ ~aborted /\ nextWork > MaxWorks
    /\ hist.evicted # NULL /\ released[hist.evicted] = 1
    /\ \A w \in Works \ {hist.evicted} : SlotPlaces(w) = 1

\* C35: with chips that assert OON only after two completions since the last
\* CLEAR_OON and a hardware reset that empties their FIFO, the jobs issued by
\* RUN_JOB and not yet completed never exceed MAX_JOB_FIFO
C35_FifoDepth == JobsInFifo <= MAX_JOB_FIFO

\* the FIFO is full again after an OON refill that followed a partial fill
C35_Witness ==
    /\ JobsInFifo = MAX_JOB_FIFO /\ hist.cleared > 0
    /\ last.event = "set_work" /\ ~aborted

\* C36: result correlation: for every job the chips can still report a GN
\* for (issued since the last flush), the slot of its job id is empty or holds
\* the very work whose RUN_JOB carried that job id: no slot is reused for a
\* newer work while results of the older job can arrive
C36_ResultCorrelation ==
    ~aborted =>
        \A n \in ReportableJobs :
            btc08.work[JobIdOfIssue(n) - 1] \in {NULL, WorkOfIssue(n)}

\* the slot table has wrapped around: the ninth job carries job id 1 again
\* and reuses slot 0, and a nonce the chips report for it is submitted
C36_Witness ==
    /\ ~aborted /\ hist.nset > JOB_ID_NUM_MASK + 1
    /\ btc08.work[0] = hist.runWork
    /\ last.event = "gn_result" /\ last.ret = 1
    /\ last.info.counts.nonces_found = 1

====
